---- MODULE Spec2Model ----
(***************************************************************************)
(* Journal construction of the core processor                              *)
(* (core-processor/src/processing.rs): one dispatch and one executor       *)
(* result in, one ordered journal of notes out.                            *)
(***************************************************************************)
EXTENDS Integers, Sequences, FiniteSets, TLC

VARIABLES
    pc,           \* "queued": dispatch taken, not processed; "done": processed
    dispatch,     \* the IncomingDispatch of the execution context
    program_id,   \* execution_context.program.id / destination_id
    exec_result,  \* what the executor (or the pre-charge step) handed over
    invoked,      \* the builder the entry point called, with its arguments
    ret           \* the value returned: Ok(journal) or Err(e)

vars == <<pc, dispatch, program_id, exec_result, invoked, ret>>

\* hypercore/db: the content-addressed storage behind `impl Storage`.
VARIABLES
    cas,          \* the CASDatabase: hash -> stored bytes
    written,      \* log of the write_* calls: kind, value given, hash returned
    read_result   \* the last read_* call: kind, hash asked, value returned

storage_vars == <<cas, written, read_result>>

\* The storage as Database::from_one(&MemDb::default()) leaves it.
StorageInit ==
    /\ cas = [h \in {} |-> <<>>]
    /\ written = <<>>
    /\ read_result = [op |-> "none"]

\* ethexe/sequencer: the fields of Sequencer that its operations change.
VARIABLES
    code_commitments,   \* CommitmentsMap<CodeCommitment>
    block_commitments,  \* CommitmentsMap<BlockCommitment>
    codes_candidate,    \* Option<MultisignedCommitmentDigests>
    blocks_candidate,   \* Option<MultisignedCommitmentDigests>
    status_sent,        \* the value held by status_sender
    seq_result          \* the last operation: its name, arguments and result

sequencer_vars ==
    <<code_commitments, block_commitments, codes_candidate, blocks_candidate,
      status_sent, seq_result>>

\* A map with no entries.
EmptyMap == [k \in {} |-> k]

\* SequencerStatus::default()
SequencerStatus_default ==
    [aggregated_commitments |-> 0, submitted_code_commitments |-> 0,
     submitted_block_commitments |-> 0]

\* Sequencer::new
SequencerInit ==
    /\ code_commitments = EmptyMap
    /\ block_commitments = EmptyMap
    /\ codes_candidate = <<>>
    /\ blocks_candidate = <<>>
    /\ status_sent = SequencerStatus_default
    /\ seq_result = [op |-> "new", ok |-> TRUE, error |-> "", panicked |-> FALSE]

\* A direct call of one function, as the tests make them
\* (Sequencer::set_candidate_commitments, Request::validate_response).
VARIABLES
    call_args,    \* the arguments of the call
    call_ret      \* None before the call, Some(what it returned) after

call_vars == <<call_args, call_ret>>

\* No direct call is made.
CallIdle == call_args = <<>> /\ call_ret = <<>>

\* ethexe/network db_sync: the fields of Behaviour, and what the inner
\* request-response behaviour holds for it.
VARIABLES
    connections,         \* HashMap<PeerId, HashSet<ConnectionId>>
    request_id_counter,  \* u64
    user_requests,       \* VecDeque<(RequestId, Request)>
    ongoing_requests,    \* HashMap<OutboundRequestId, (RequestId, Request)>
    ongoing_response,    \* Option<(ResponseChannel, JoinHandle)>
    inner,               \* InnerBehaviour: requests sent, response channels
    polled               \* what the last call returned

db_sync_vars ==
    <<connections, request_id_counter, user_requests, ongoing_requests,
      ongoing_response, inner, polled>>

\* Behaviour::new
DbSyncInit ==
    /\ connections = EmptyMap
    /\ request_id_counter = 0
    /\ user_requests = <<>>
    /\ ongoing_requests = EmptyMap
    /\ ongoing_response = <<>>
    /\ inner = [sent |-> {}, next_outbound |-> 1, channels |-> EmptyMap]
    /\ polled = [ret |-> "new", request_id |-> 0, detail |-> ""]

----------------------------------------------------------------------------
(* Option<T>: None is the empty tuple, Some(v) the one-element tuple.      *)

None == <<>>

Some(v) == <<v>>

is_some(o) == o # <<>>

is_none(o) == o = <<>>

----------------------------------------------------------------------------
(* Bounds of the input enumeration.                                        *)

\* Number of effects (sub-dispatch, wake, page, new program, reply deposit,
\* gas reservation entry, explicit reply, allocation) one execution records.
MaxEffects == 2

----------------------------------------------------------------------------
(* Input domains.                                                          *)

DispatchKinds == {"Init", "Handle", "Reply", "Signal"}

Values == {0, 7, 100}

GasAmounts == {0, 12345}

ReservationAmounts == {50}

ReservationIds == {1, 2}

\* Reply details of a message: none, a success reply, an error reply.
MessageDetails ==
    {None}
    \cup {Some([to |-> "m0", code |-> c]) :
            c \in {[reply |-> "Success", reason |-> [reason |-> "Manual"]],
                   [reply |-> "Error", reason |-> [reason |-> "InactiveActor"]]}}

\* The resumption context of a dispatch that was waiting.
ContextStores ==
    {[system_reservation |-> r, initialized |-> i] :
        r \in {None} \cup {Some(a) : a \in ReservationAmounts},
        i \in {FALSE}}

ExecutorContextStores ==
    {[system_reservation |-> None, initialized |-> TRUE]}

IncomingMessages ==
    {[id |-> "m1", source |-> "u1", value |-> v, details |-> d] :
        v \in Values, d \in MessageDetails}

IncomingDispatches ==
    {[kind |-> k, message |-> m, context |-> c] :
        k \in DispatchKinds, m \in IncomingMessages,
        c \in {None} \cup {Some(s) : s \in ContextStores}}

ProgramIds == {"p1"}

\* ActorExecutionErrorReplyReason
TrapExplanations == {"GasLimitExceeded", "Panic"}

ActorExecutionErrorReplyReasons ==
    {[reason |-> "Trap", explanation |-> t] : t \in TrapExplanations}
    \cup {[reason |-> "PreChargeGasLimitExceeded"]}

----------------------------------------------------------------------------
(* gear-core accessors and conversions used by the builders.               *)

dispatch_id(d) == d.message.id

dispatch_source(d) == d.message.source

dispatch_value(d) == d.message.value

dispatch_kind(d) == d.kind

dispatch_context(d) == d.context

is_reply(d) == is_some(d.message.details)

is_error_reply(d) ==
    is_some(d.message.details) /\ d.message.details[1].code.reply = "Error"

\* SimpleExecutionError of a reason: several reasons share one code.
as_simple(reason) ==
    IF reason.reason = "PreChargeGasLimitExceeded" THEN "RanOutOfGas"
    ELSE IF reason.explanation = "GasLimitExceeded" THEN "RanOutOfGas"
    ELSE "UserspacePanic"

\* Display text of a reason.
reason_to_string(reason) ==
    IF reason.reason = "PreChargeGasLimitExceeded"
    THEN "Not enough gas to handle program data"
    ELSE IF reason.explanation = "GasLimitExceeded"
    THEN "Trap: Not enough gas to continue execution"
    ELSE "Trap: Panic occurred"

\* MessageId::generate_reply
generate_reply(message_id) == <<"reply", message_id>>

\* ReplyMessage::system(origin_msg_id, payload, err)
ReplyMessage_system(origin_msg_id, payload, err) ==
    [id |-> generate_reply(origin_msg_id), payload |-> payload, value |-> 0,
     code |-> [reply |-> "Error", reason |-> err]]

\* ReplyMessage::auto(origin_msg_id)
ReplyMessage_auto(origin_msg_id) ==
    [id |-> generate_reply(origin_msg_id), payload |-> "", value |-> 0,
     code |-> [reply |-> "Success", reason |-> [reason |-> "Auto"]]]

\* ReplyMessage::into_dispatch(program_id, destination, origin_msg_id)
into_dispatch(reply, source, destination, origin_msg_id) ==
    [kind |-> "Reply",
     message |-> [id |-> reply.id, source |-> source,
                  destination |-> destination, payload |-> reply.payload,
                  value |-> reply.value,
                  details |-> Some([to |-> origin_msg_id, code |-> reply.code])]]

\* IncomingMessage::into_stored(destination)
message_into_stored(message, destination) ==
    [id |-> message.id, source |-> message.source,
     destination |-> destination, value |-> message.value,
     details |-> message.details]

\* StoredDispatch::new(kind, message, context)
StoredDispatch_new(kind, message, context) ==
    [kind |-> kind, message |-> message, context |-> context]

\* IncomingDispatch::into_stored(destination, context)
dispatch_into_stored(d, destination, context) ==
    StoredDispatch_new(d.kind, message_into_stored(d.message, destination),
                       Some(context))

\* SystemReservationContext::from_dispatch
from_dispatch(d) ==
    [current_reservation |->
        IF is_some(d.context) THEN d.context[1].system_reservation ELSE None]

\* SystemReservationContext::has_any
has_any(ctx) == is_some(ctx.current_reservation)

----------------------------------------------------------------------------
(* ProcessErrorCase                                                        *)

NonExecutable == [case |-> "NonExecutable"]

ExecutionFailed(reason) == [case |-> "ExecutionFailed", reason |-> reason]

ReinstrumentationFailed == [case |-> "ReinstrumentationFailed"]

to_reason_and_payload(case) ==
    IF case.case = "NonExecutable"
    THEN <<[reason |-> "InactiveActor"], "InactiveActor">>
    ELSE IF case.case = "ExecutionFailed"
    THEN <<[reason |-> "Execution", simple |-> as_simple(case.reason)],
           reason_to_string(case.reason)>>
    ELSE <<[reason |-> "ReinstrumentationFailure"], "ReinstrumentationFailure">>

----------------------------------------------------------------------------
(* process_error, step by step in the order of the source.                 *)

error_gas_burned(d, gas_burned) ==
    <<[note |-> "GasBurned", message_id |-> dispatch_id(d), amount |-> gas_burned]>>

\* Mutant: the refund ignores the resumption context.
error_send_value_ignoring_context(d) ==
    IF dispatch_value(d) # 0
    THEN <<[note |-> "SendValue", from |-> dispatch_source(d), to |-> None,
            value |-> dispatch_value(d)]>>
    ELSE <<>>

error_send_value(d) ==
    IF is_none(dispatch_context(d)) /\ dispatch_value(d) # 0
    THEN <<[note |-> "SendValue", from |-> dispatch_source(d), to |-> None,
            value |-> dispatch_value(d)]>>
    ELSE <<>>

error_system_reserve(d, ctx) ==
    IF is_some(ctx.current_reservation)
    THEN <<[note |-> "SystemReserveGas", message_id |-> dispatch_id(d),
            amount |-> ctx.current_reservation[1]]>>
    ELSE <<>>

\* Mutant: the signal is raised for a failed Init dispatch too.
error_send_signal_for_init(d, pid, ctx, case) ==
    IF /\ case.case = "ExecutionFailed"
       /\ has_any(ctx)
       /\ ~is_error_reply(d)
       /\ dispatch_kind(d) # "Signal"
    THEN <<[note |-> "SendSignal", message_id |-> dispatch_id(d),
            destination |-> pid,
            code |-> [signal |-> "Execution",
                      simple |-> as_simple(case.reason)]]>>
    ELSE <<>>

\* Mutant: any reply, not only an error reply, suppresses the signal.
error_send_signal_not_for_replies(d, pid, ctx, case) ==
    IF /\ case.case = "ExecutionFailed"
       /\ has_any(ctx)
       /\ ~is_reply(d)
       /\ dispatch_kind(d) \notin {"Signal", "Init"}
    THEN <<[note |-> "SendSignal", message_id |-> dispatch_id(d),
            destination |-> pid,
            code |-> [signal |-> "Execution",
                      simple |-> as_simple(case.reason)]]>>
    ELSE <<>>

error_send_signal(d, pid, ctx, case) ==
    IF /\ case.case = "ExecutionFailed"
       /\ has_any(ctx)
       /\ ~is_error_reply(d)
       /\ dispatch_kind(d) \notin {"Signal", "Init"}
    THEN <<[note |-> "SendSignal", message_id |-> dispatch_id(d),
            destination |-> pid,
            code |-> [signal |-> "Execution",
                      simple |-> as_simple(case.reason)]]>>
    ELSE <<>>

error_system_unreserve(d, ctx) ==
    IF has_any(ctx)
    THEN <<[note |-> "SystemUnreserveGas", message_id |-> dispatch_id(d)]>>
    ELSE <<>>

\* Mutant: an error reply is sent in answer to a reply as well.
error_reply_to_replies(d, pid, case) ==
    IF dispatch_kind(d) # "Signal"
    THEN LET rp == to_reason_and_payload(case)
             reply == into_dispatch(
                          ReplyMessage_system(dispatch_id(d), rp[2], rp[1]),
                          pid, dispatch_source(d), dispatch_id(d))
         IN <<[note |-> "SendDispatch", message_id |-> dispatch_id(d),
               dispatch |-> reply, delay |-> 0, reservation |-> None]>>
    ELSE <<>>

\* Mutant: an error reply is sent in answer to a signal as well.
error_reply_to_signals(d, pid, case) ==
    IF ~is_reply(d)
    THEN LET rp == to_reason_and_payload(case)
             reply == into_dispatch(
                          ReplyMessage_system(dispatch_id(d), rp[2], rp[1]),
                          pid, dispatch_source(d), dispatch_id(d))
         IN <<[note |-> "SendDispatch", message_id |-> dispatch_id(d),
               dispatch |-> reply, delay |-> 0, reservation |-> None]>>
    ELSE <<>>

error_reply(d, pid, case) ==
    IF ~is_reply(d) /\ dispatch_kind(d) # "Signal"
    THEN LET rp == to_reason_and_payload(case)
             reply == into_dispatch(
                          ReplyMessage_system(dispatch_id(d), rp[2], rp[1]),
                          pid, dispatch_source(d), dispatch_id(d))
         IN <<[note |-> "SendDispatch", message_id |-> dispatch_id(d),
               dispatch |-> reply, delay |-> 0, reservation |-> None]>>
    ELSE <<>>

\* Mutant: a failed Init is an InitFailure in the NonExecutable case too.
error_outcome_init_always_fails(d, pid, case) ==
    IF dispatch_kind(d) = "Init"
    THEN [outcome |-> "InitFailure", program_id |-> pid,
          origin |-> dispatch_source(d),
          reason |-> to_reason_and_payload(case)[2]]
    ELSE IF case.case \in {"ExecutionFailed", "ReinstrumentationFailed"}
    THEN [outcome |-> "MessageTrap", program_id |-> pid,
          trap |-> to_reason_and_payload(case)[2]]
    ELSE [outcome |-> "NoExecution"]

error_outcome(d, pid, case) ==
    IF case.case \in {"ExecutionFailed", "ReinstrumentationFailed"}
    THEN IF dispatch_kind(d) = "Init"
         THEN [outcome |-> "InitFailure", program_id |-> pid,
               origin |-> dispatch_source(d),
               reason |-> to_reason_and_payload(case)[2]]
         ELSE [outcome |-> "MessageTrap", program_id |-> pid,
               trap |-> to_reason_and_payload(case)[2]]
    ELSE [outcome |-> "NoExecution"]

\* Mutant: the dispatched message is never consumed.
message_dispatched_not_consumed(d, outcome) ==
    <<[note |-> "MessageDispatched", message_id |-> dispatch_id(d),
       source |-> dispatch_source(d), outcome |-> outcome]>>

message_dispatched(d, outcome) ==
    <<[note |-> "MessageDispatched", message_id |-> dispatch_id(d),
       source |-> dispatch_source(d), outcome |-> outcome],
      [note |-> "MessageConsumed", message_id |-> dispatch_id(d)]>>

\* Mutant: the value is refunded before the burned gas is charged.
process_error_refund_first(d, pid, gas_burned, ctx, case) ==
    error_send_value(d)
    \o error_gas_burned(d, gas_burned)
    \o error_system_reserve(d, ctx)
    \o error_send_signal(d, pid, ctx, case)
    \o error_system_unreserve(d, ctx)
    \o error_reply(d, pid, case)
    \o message_dispatched(d, error_outcome(d, pid, case))

\* Mutant: the reservation is closed before the signal is raised.
process_error_unreserve_before_signal(d, pid, gas_burned, ctx, case) ==
    error_gas_burned(d, gas_burned)
    \o error_send_value(d)
    \o error_system_reserve(d, ctx)
    \o error_system_unreserve(d, ctx)
    \o error_send_signal(d, pid, ctx, case)
    \o error_reply(d, pid, case)
    \o message_dispatched(d, error_outcome(d, pid, case))

process_error(d, pid, gas_burned, ctx, case) ==
    error_gas_burned(d, gas_burned)
    \o error_send_value(d)
    \o error_system_reserve(d, ctx)
    \o error_send_signal(d, pid, ctx, case)
    \o error_system_unreserve(d, ctx)
    \o error_reply(d, pid, case)
    \o message_dispatched(d, error_outcome(d, pid, case))

process_execution_error(d, pid, gas_burned, ctx, err) ==
    process_error(d, pid, gas_burned, ctx, ExecutionFailed(err))

\* context: ContextChargedForInstrumentation
process_reinstrumentation_error(context) ==
    process_error(context.dispatch, context.destination_id,
                  context.gas_burned, from_dispatch(context.dispatch),
                  ReinstrumentationFailed)

\* context: ContextChargedForProgram
process_non_executable(context) ==
    process_error(context.dispatch, context.destination_id,
                  context.gas_burned, from_dispatch(context.dispatch),
                  NonExecutable)

----------------------------------------------------------------------------
(* process_success, step by step in the order of the source.               *)

\* The keys of a BTreeMap in iteration (ascending) order.
RECURSIVE keys_ascending(_)
keys_ascending(S) ==
    IF S = {} THEN <<>>
    ELSE LET m == CHOOSE x \in S : \A y \in S : x <= y
         IN <<m>> \o keys_ascending(S \ {m})

\* SuccessfulDispatchResultKind
KindSuccess == [kind |-> "Success"]

KindWait(duration, waited_type) ==
    [kind |-> "Wait", duration |-> duration, waited_type |-> waited_type]

KindExit(value_destination) ==
    [kind |-> "Exit", value_destination |-> value_destination]

success_gas_burned(res) ==
    <<[note |-> "GasBurned", message_id |-> dispatch_id(res.dispatch),
       amount |-> res.gas_burned]>>

\* The note of one (reservation id, state) entry of the reserver, if any.
reservation_note(res, reservation_id, state) ==
    IF state.state = "Created"
    THEN <<[note |-> "ReserveGas", message_id |-> dispatch_id(res.dispatch),
            reservation_id |-> reservation_id, program_id |-> res.program_id,
            amount |-> state.amount, duration |-> state.duration]>>
    ELSE IF state.state = "Removed"
    THEN <<[note |-> "UnreserveGas", reservation_id |-> reservation_id,
            program_id |-> res.program_id, expiration |-> state.expiration]>>
    ELSE <<>>

RECURSIVE reservation_notes(_, _, _)
reservation_notes(res, states, keys) ==
    IF keys = <<>> THEN <<>>
    ELSE reservation_note(res, Head(keys), states[Head(keys)])
         \o reservation_notes(res, states, Tail(keys))

\* Mutant: the snapshot is written only when a reservation changed.
success_gas_reservations_only_on_change(res) ==
    IF is_some(res.gas_reserver)
    THEN LET states == res.gas_reserver[1]
             deltas == reservation_notes(res, states,
                                         keys_ascending(DOMAIN states))
         IN IF deltas = <<>> THEN <<>>
            ELSE deltas \o <<[note |-> "UpdateGasReservations",
                              program_id |-> res.program_id,
                              reserver |-> states]>>
    ELSE <<>>

success_gas_reservations(res) ==
    IF is_some(res.gas_reserver)
    THEN LET states == res.gas_reserver[1]
         IN reservation_notes(res, states, keys_ascending(DOMAIN states))
            \o <<[note |-> "UpdateGasReservations",
                  program_id |-> res.program_id, reserver |-> states]>>
    ELSE <<>>

success_system_reserve(res) ==
    IF is_some(res.system_reservation_context.current_reservation)
    THEN <<[note |-> "SystemReserveGas", message_id |-> dispatch_id(res.dispatch),
            amount |-> res.system_reservation_context.current_reservation[1]]>>
    ELSE <<>>

\* Mutant: a zero value is transferred as well.
success_send_value_even_zero(res) ==
    IF is_none(dispatch_context(res.dispatch))
    THEN <<[note |-> "SendValue", from |-> dispatch_source(res.dispatch),
            to |-> Some(res.program_id), value |-> dispatch_value(res.dispatch)]>>
    ELSE <<>>

\* Mutant: the value is sent back to the sender, as process_error does.
success_send_value_as_refund(res) ==
    IF is_none(dispatch_context(res.dispatch)) /\ dispatch_value(res.dispatch) # 0
    THEN <<[note |-> "SendValue", from |-> dispatch_source(res.dispatch),
            to |-> None, value |-> dispatch_value(res.dispatch)]>>
    ELSE <<>>

success_send_value(res) ==
    IF is_none(dispatch_context(res.dispatch)) /\ dispatch_value(res.dispatch) # 0
    THEN <<[note |-> "SendValue", from |-> dispatch_source(res.dispatch),
            to |-> Some(res.program_id), value |-> dispatch_value(res.dispatch)]>>
    ELSE <<>>

success_store_new_programs(res) ==
    LET Note(c) == [note |-> "StoreNewPrograms", program_id |-> res.program_id,
                    code_id |-> c.code_id, candidates |-> c.candidates]
    IN [i \in 1..Len(res.program_candidates) |-> Note(res.program_candidates[i])]

\* Mutant: no auto-reply for an Init dispatch.
success_auto_reply_not_for_init(kind, res) ==
    IF /\ kind.kind = "Success"
       /\ ~res.reply_sent
       /\ ~is_reply(res.dispatch)
       /\ dispatch_kind(res.dispatch) \notin {"Signal", "Init"}
    THEN LET auto_reply == into_dispatch(
                 ReplyMessage_auto(dispatch_id(res.dispatch)),
                 res.program_id, dispatch_source(res.dispatch),
                 dispatch_id(res.dispatch))
         IN <<[note |-> "SendDispatch", message_id |-> dispatch_id(res.dispatch),
               dispatch |-> auto_reply, delay |-> 0, reservation |-> None]>>
    ELSE <<>>

success_auto_reply(kind, res) ==
    IF /\ kind.kind = "Success"
       /\ ~res.reply_sent
       /\ ~is_reply(res.dispatch)
       /\ dispatch_kind(res.dispatch) # "Signal"
    THEN LET auto_reply == into_dispatch(
                 ReplyMessage_auto(dispatch_id(res.dispatch)),
                 res.program_id, dispatch_source(res.dispatch),
                 dispatch_id(res.dispatch))
         IN <<[note |-> "SendDispatch", message_id |-> dispatch_id(res.dispatch),
               dispatch |-> auto_reply, delay |-> 0, reservation |-> None]>>
    ELSE <<>>

success_reply_deposits(res) ==
    LET Note(r) == [note |-> "ReplyDeposit", message_id |-> dispatch_id(res.dispatch),
                    future_reply_id |-> generate_reply(r.message_id_sent),
                    amount |-> r.amount]
    IN [i \in 1..Len(res.reply_deposits) |-> Note(res.reply_deposits[i])]

success_generated_dispatches(res) ==
    LET Note(g) == [note |-> "SendDispatch", message_id |-> dispatch_id(res.dispatch),
                    dispatch |-> g.dispatch, delay |-> g.delay,
                    reservation |-> g.reservation]
    IN [i \in 1..Len(res.generated_dispatches) |-> Note(res.generated_dispatches[i])]

success_awakening(res) ==
    LET Note(a) == [note |-> "WakeMessage", message_id |-> dispatch_id(res.dispatch),
                    program_id |-> res.program_id,
                    awakening_id |-> a.awakening_id, delay |-> a.delay]
    IN [i \in 1..Len(res.awakening) |-> Note(res.awakening[i])]

success_page_update(res) ==
    LET Note(u) == [note |-> "UpdatePage", program_id |-> res.program_id,
                    page_number |-> u.page_number, data |-> u.data]
    IN [i \in 1..Len(res.page_update) |-> Note(res.page_update[i])]

success_allocations(res) ==
    IF is_some(res.allocations)
    THEN <<[note |-> "UpdateAllocations", program_id |-> res.program_id,
            allocations |-> res.allocations[1]]>>
    ELSE <<>>

\* Mutant: the system reservation is never unwound on success.
success_system_unreserve_never(res) == <<>>

success_system_unreserve(res) ==
    IF has_any(res.system_reservation_context)
    THEN <<[note |-> "SystemUnreserveGas", message_id |-> dispatch_id(res.dispatch)]>>
    ELSE <<>>

\* Mutant: the Wait arm does not return, the message is consumed as well.
success_finish_wait_falls_through(kind, res) ==
    IF kind.kind = "Wait"
    THEN <<[note |-> "WaitDispatch",
            dispatch |-> dispatch_into_stored(res.dispatch, res.program_id,
                                              res.context_store),
            duration |-> kind.duration, waited_type |-> kind.waited_type]>>
         \o success_system_unreserve(res)
         \o message_dispatched(res.dispatch, [outcome |-> "Success"])
    ELSE IF kind.kind = "Success"
    THEN success_system_unreserve(res)
         \o message_dispatched(res.dispatch,
                IF dispatch_kind(res.dispatch) = "Init"
                THEN [outcome |-> "InitSuccess", program_id |-> res.program_id]
                ELSE [outcome |-> "Success"])
    ELSE <<[note |-> "ExitDispatch", id_exited |-> res.program_id,
            value_destination |-> kind.value_destination]>>
         \o success_system_unreserve(res)
         \o message_dispatched(res.dispatch,
                [outcome |-> "Exit", program_id |-> res.program_id])

\* Mutant: the system reservation is unwound before the dispatch is parked.
success_finish_wait_unreserves(kind, res) ==
    IF kind.kind = "Wait"
    THEN success_system_unreserve(res)
         \o <<[note |-> "WaitDispatch",
               dispatch |-> dispatch_into_stored(res.dispatch, res.program_id,
                                                 res.context_store),
               duration |-> kind.duration, waited_type |-> kind.waited_type]>>
    ELSE IF kind.kind = "Success"
    THEN success_system_unreserve(res)
         \o message_dispatched(res.dispatch,
                IF dispatch_kind(res.dispatch) = "Init"
                THEN [outcome |-> "InitSuccess", program_id |-> res.program_id]
                ELSE [outcome |-> "Success"])
    ELSE <<[note |-> "ExitDispatch", id_exited |-> res.program_id,
            value_destination |-> kind.value_destination]>>
         \o success_system_unreserve(res)
         \o message_dispatched(res.dispatch,
                [outcome |-> "Exit", program_id |-> res.program_id])

\* The match on kind that ends process_success.
success_finish(kind, res) ==
    IF kind.kind = "Wait"
    THEN <<[note |-> "WaitDispatch",
            dispatch |-> dispatch_into_stored(res.dispatch, res.program_id,
                                              res.context_store),
            duration |-> kind.duration, waited_type |-> kind.waited_type]>>
    ELSE IF kind.kind = "Success"
    THEN success_system_unreserve(res)
         \o message_dispatched(res.dispatch,
                IF dispatch_kind(res.dispatch) = "Init"
                THEN [outcome |-> "InitSuccess", program_id |-> res.program_id]
                ELSE [outcome |-> "Success"])
    ELSE <<[note |-> "ExitDispatch", id_exited |-> res.program_id,
            value_destination |-> kind.value_destination]>>
         \o success_system_unreserve(res)
         \o message_dispatched(res.dispatch,
                [outcome |-> "Exit", program_id |-> res.program_id])

\* Mutant: the messages are woken before the sub-dispatches are sent.
process_success_wake_before_dispatches(kind, res) ==
    success_gas_burned(res)
    \o success_gas_reservations(res)
    \o success_system_reserve(res)
    \o success_send_value(res)
    \o success_store_new_programs(res)
    \o success_auto_reply(kind, res)
    \o success_reply_deposits(res)
    \o success_awakening(res)
    \o success_generated_dispatches(res)
    \o success_page_update(res)
    \o success_allocations(res)
    \o success_finish(kind, res)

\* Mutant: the new programs are stored after the dispatches are sent.
process_success_programs_after_dispatches(kind, res) ==
    success_gas_burned(res)
    \o success_gas_reservations(res)
    \o success_system_reserve(res)
    \o success_send_value(res)
    \o success_auto_reply(kind, res)
    \o success_reply_deposits(res)
    \o success_generated_dispatches(res)
    \o success_store_new_programs(res)
    \o success_awakening(res)
    \o success_page_update(res)
    \o success_allocations(res)
    \o success_finish(kind, res)

process_success(kind, res) ==
    success_gas_burned(res)
    \o success_gas_reservations(res)
    \o success_system_reserve(res)
    \o success_send_value(res)
    \o success_store_new_programs(res)
    \o success_auto_reply(kind, res)
    \o success_reply_deposits(res)
    \o success_generated_dispatches(res)
    \o success_awakening(res)
    \o success_page_update(res)
    \o success_allocations(res)
    \o success_finish(kind, res)

----------------------------------------------------------------------------
(* process_allowance_exceed                                                *)

\* Mutant: the stored dispatch loses the resumption context.
process_allowance_exceed_dropping_context(d, pid, gas_burned) ==
    <<[note |-> "StopProcessing",
       dispatch |-> StoredDispatch_new(d.kind,
                                       message_into_stored(d.message, pid),
                                       None),
       gas_burned |-> gas_burned]>>

process_allowance_exceed(d, pid, gas_burned) ==
    <<[note |-> "StopProcessing",
       dispatch |-> StoredDispatch_new(d.kind,
                                       message_into_stored(d.message, pid),
                                       d.context),
       gas_burned |-> gas_burned]>>

----------------------------------------------------------------------------
(* The executor's results: the DispatchResult bundles and the errors.      *)

GasReservationStates ==
    {[state |-> "Exists"],
     [state |-> "Created", amount |-> 30, duration |-> 5],
     [state |-> "Removed", expiration |-> 9]}

ProgramCandidates ==
    {[code_id |-> "c1", candidates |-> <<"p2">>],
     [code_id |-> "c2", candidates |-> <<"p3", "p4">>]}

GeneratedDispatches ==
    {[dispatch |-> [kind |-> "Handle",
                    message |-> [id |-> "m2", source |-> "p1",
                                 destination |-> "p2", payload |-> "",
                                 value |-> 0, details |-> None]],
      delay |-> 0, reservation |-> None],
     [dispatch |-> [kind |-> "Init",
                    message |-> [id |-> "m3", source |-> "p1",
                                 destination |-> "p2", payload |-> "",
                                 value |-> 0, details |-> None]],
      delay |-> 4, reservation |-> Some(1)]}

Awakenings == {[awakening_id |-> "m4", delay |-> 0]}

PageUpdates == {[page_number |-> 0, data |-> "page0"]}

ReplyDeposits == {[message_id_sent |-> "m2", amount |-> 20]}

\* What one step of an execution adds to the bundle.
Effects ==
    {[effect |-> "program_candidates", item |-> x] : x \in ProgramCandidates}
    \cup {[effect |-> "generated_dispatches", item |-> x] : x \in GeneratedDispatches}
    \cup {[effect |-> "awakening", item |-> x] : x \in Awakenings}
    \cup {[effect |-> "page_update", item |-> x] : x \in PageUpdates}
    \cup {[effect |-> "reply_deposits", item |-> x] : x \in ReplyDeposits}
    \cup {[effect |-> "gas_reserver", id |-> i, item |-> x] :
            i \in ReservationIds, x \in GasReservationStates}
    \cup {[effect |-> "reply_sent"], [effect |-> "allocations"]}

\* The effect fields of a bundle of an execution that recorded nothing.
NoEffects(reserver) ==
    [generated_dispatches |-> <<>>, awakening |-> <<>>,
     program_candidates |-> <<>>, gas_reserver |-> reserver,
     page_update |-> <<>>, allocations |-> None, reply_deposits |-> <<>>,
     reply_sent |-> FALSE]

AddEffect(b, e) ==
    IF e.effect = "program_candidates"
    THEN [b EXCEPT !.program_candidates = Append(@, e.item)]
    ELSE IF e.effect = "generated_dispatches"
    THEN [b EXCEPT !.generated_dispatches = Append(@, e.item)]
    ELSE IF e.effect = "awakening"
    THEN [b EXCEPT !.awakening = Append(@, e.item)]
    ELSE IF e.effect = "page_update"
    THEN [b EXCEPT !.page_update = Append(@, e.item)]
    ELSE IF e.effect = "reply_deposits"
    THEN [b EXCEPT !.reply_deposits = Append(@, e.item)]
    ELSE IF e.effect = "gas_reserver"
    THEN IF is_some(b.gas_reserver) /\ e.id \notin DOMAIN b.gas_reserver[1]
         THEN [b EXCEPT !.gas_reserver = Some((e.id :> e.item) @@ @[1])]
         ELSE b
    ELSE IF e.effect = "reply_sent"
    THEN [b EXCEPT !.reply_sent = TRUE]
    ELSE [b EXCEPT !.allocations = Some({0, 1})]

RECURSIVE EffectsUpTo(_)
EffectsUpTo(n) ==
    IF n = 0 THEN {NoEffects(None), NoEffects(Some(<<>>))}
    ELSE LET prev == EffectsUpTo(n - 1)
         IN prev \cup {AddEffect(b, e) : b \in prev, e \in Effects}

ExecutionEffects == EffectsUpTo(MaxEffects)

SystemReservationContexts ==
    {[current_reservation |-> r] :
        r \in {None} \cup {Some(a) : a \in ReservationAmounts}}

DispatchResult(kind, d, pid, gas_burned, ctx, store, b) ==
    [kind |-> kind, dispatch |-> d, program_id |-> pid,
     gas_burned |-> gas_burned, system_reservation_context |-> ctx,
     context_store |-> store,
     generated_dispatches |-> b.generated_dispatches,
     awakening |-> b.awakening,
     program_candidates |-> b.program_candidates,
     gas_reserver |-> b.gas_reserver,
     page_update |-> b.page_update,
     allocations |-> b.allocations,
     reply_deposits |-> b.reply_deposits,
     reply_sent |-> b.reply_sent]

\* DispatchResultKind
FinishedKinds == {KindSuccess, KindExit("p3")}

WaitKinds == {KindWait(Some(10), "WaitFor")}

AbortedKinds ==
    {[kind |-> "Trap", explanation |-> t] : t \in TrapExplanations}
    \cup {[kind |-> "GasAllowanceExceed"]}

\* Result<DispatchResult, ExecutionError> of execute_wasm for dispatch d.
ExecutorResults(d, pid) ==
    {[tag |-> "Ok",
      res |-> DispatchResult(k, d, pid, g, c, s, b)] :
        k \in FinishedKinds \cup WaitKinds, g \in GasAmounts,
        c \in SystemReservationContexts, s \in ExecutorContextStores,
        b \in ExecutionEffects}
    \cup {[tag |-> "Ok",
           res |-> DispatchResult(k, d, pid, g, c, s, NoEffects(None))] :
            k \in AbortedKinds, g \in GasAmounts,
            c \in SystemReservationContexts, s \in ExecutorContextStores}
    \cup {[tag |-> "Actor", gas_burned |-> g, reason |-> r] :
            g \in GasAmounts, r \in ActorExecutionErrorReplyReasons}
    \cup {[tag |-> "System", error |-> e] :
            e \in {"Environment", "UndefinedTerminationReason"}}

----------------------------------------------------------------------------
(* process: the executor's result routed to one builder.                   *)

\* Mutant: a Wait result is handed to process_success as Success.
process_route_wait_as_success(d, pid, system_reservation_ctx, result) ==
    IF result.tag = "Ok"
    THEN LET res == result.res
         IN IF res.kind.kind = "Trap"
            THEN [builder |-> "process_error", dispatch |-> res.dispatch,
                  program_id |-> pid, gas_burned |-> res.gas_burned,
                  system_reservation_ctx |-> res.system_reservation_context,
                  case |-> ExecutionFailed([reason |-> "Trap",
                                            explanation |-> res.kind.explanation])]
            ELSE IF res.kind.kind = "GasAllowanceExceed"
            THEN [builder |-> "process_allowance_exceed", dispatch |-> d,
                  program_id |-> pid, gas_burned |-> res.gas_burned]
            ELSE [builder |-> "process_success",
                  kind |-> IF res.kind.kind = "Wait" THEN KindSuccess ELSE res.kind,
                  dispatch_result |-> res]
    ELSE IF result.tag = "Actor"
    THEN [builder |-> "process_error", dispatch |-> d, program_id |-> pid,
          gas_burned |-> result.gas_burned,
          system_reservation_ctx |-> system_reservation_ctx,
          case |-> ExecutionFailed(result.reason)]
    ELSE [builder |-> "none", error |-> result.error]

\* Mutant: an actor error is propagated like a system error.
process_route_actor_error_fatal(d, pid, system_reservation_ctx, result) ==
    IF result.tag = "Ok"
    THEN LET res == result.res
         IN IF res.kind.kind = "Trap"
            THEN [builder |-> "process_error", dispatch |-> res.dispatch,
                  program_id |-> pid, gas_burned |-> res.gas_burned,
                  system_reservation_ctx |-> res.system_reservation_context,
                  case |-> ExecutionFailed([reason |-> "Trap",
                                            explanation |-> res.kind.explanation])]
            ELSE IF res.kind.kind = "GasAllowanceExceed"
            THEN [builder |-> "process_allowance_exceed", dispatch |-> d,
                  program_id |-> pid, gas_burned |-> res.gas_burned]
            ELSE [builder |-> "process_success",
                  kind |-> res.kind, dispatch_result |-> res]
    ELSE IF result.tag = "Actor"
    THEN [builder |-> "none", error |-> "Actor"]
    ELSE [builder |-> "none", error |-> result.error]

\* The builder the match on exec_result calls, with its arguments.
process_route(d, pid, system_reservation_ctx, result) ==
    IF result.tag = "Ok"
    THEN LET res == result.res
         IN IF res.kind.kind = "Trap"
            THEN [builder |-> "process_error", dispatch |-> res.dispatch,
                  program_id |-> pid, gas_burned |-> res.gas_burned,
                  system_reservation_ctx |-> res.system_reservation_context,
                  case |-> ExecutionFailed([reason |-> "Trap",
                                            explanation |-> res.kind.explanation])]
            ELSE IF res.kind.kind = "GasAllowanceExceed"
            THEN [builder |-> "process_allowance_exceed", dispatch |-> d,
                  program_id |-> pid, gas_burned |-> res.gas_burned]
            ELSE [builder |-> "process_success",
                  kind |-> res.kind, dispatch_result |-> res]
    ELSE IF result.tag = "Actor"
    THEN [builder |-> "process_error", dispatch |-> d, program_id |-> pid,
          gas_burned |-> result.gas_burned,
          system_reservation_ctx |-> system_reservation_ctx,
          case |-> ExecutionFailed(result.reason)]
    ELSE [builder |-> "none", error |-> result.error]

\* The journal of a builder call.
journal_of(call) ==
    IF call.builder = "process_error"
    THEN process_error(call.dispatch, call.program_id, call.gas_burned,
                       call.system_reservation_ctx, call.case)
    ELSE IF call.builder = "process_success"
    THEN process_success(call.kind, call.dispatch_result)
    ELSE process_allowance_exceed(call.dispatch, call.program_id,
                                  call.gas_burned)

Ok(journal) == [ok |-> TRUE, journal |-> journal]

Err(e) == [ok |-> FALSE, error |-> e]

process_result(call) ==
    IF call.builder = "none" THEN Err(call.error) ELSE Ok(journal_of(call))

process(d, pid, result) ==
    process_result(process_route(d, pid, from_dispatch(d), result))

----------------------------------------------------------------------------
(* The state machine: a dispatch is taken and processed once.              *)

NoCall == [builder |-> "none"]

\* The other components at rest.
OthersInit == StorageInit /\ SequencerInit /\ CallIdle /\ DbSyncInit

others_vars == <<storage_vars, sequencer_vars, call_vars, db_sync_vars>>

Init ==
    /\ pc = "queued"
    /\ dispatch \in IncomingDispatches
    /\ program_id \in ProgramIds
    /\ exec_result = [tag |-> "None"]
    /\ invoked = NoCall
    /\ ret = Ok(<<>>)
    /\ OthersInit

\* process(): the program is executed and the result turned into a journal.
Process ==
    /\ pc = "queued"
    /\ \E result \in ExecutorResults(dispatch, program_id) :
        /\ exec_result' = result
        /\ invoked' = process_route(dispatch, program_id,
                                    from_dispatch(dispatch), result)
        /\ ret' = process(dispatch, program_id, result)
    /\ pc' = "done"
    /\ UNCHANGED <<dispatch, program_id, others_vars>>

\* process_non_executable(): the destination cannot execute the message.
ProcessNonExecutable ==
    /\ pc = "queued"
    /\ \E g \in GasAmounts :
        LET context == [dispatch |-> dispatch, destination_id |-> program_id,
                        gas_burned |-> g]
        IN /\ exec_result' = [tag |-> "NonExecutable", gas_burned |-> g]
           /\ invoked' = [builder |-> "process_error", dispatch |-> dispatch,
                          program_id |-> program_id, gas_burned |-> g,
                          system_reservation_ctx |-> from_dispatch(dispatch),
                          case |-> NonExecutable]
           /\ ret' = Ok(process_non_executable(context))
    /\ pc' = "done"
    /\ UNCHANGED <<dispatch, program_id, others_vars>>

\* process_reinstrumentation_error(): the code could not be re-instrumented.
ProcessReinstrumentationError ==
    /\ pc = "queued"
    /\ \E g \in GasAmounts :
        LET context == [dispatch |-> dispatch, destination_id |-> program_id,
                        gas_burned |-> g]
        IN /\ exec_result' = [tag |-> "ReinstrumentationFailed", gas_burned |-> g]
           /\ invoked' = [builder |-> "process_error", dispatch |-> dispatch,
                          program_id |-> program_id, gas_burned |-> g,
                          system_reservation_ctx |-> from_dispatch(dispatch),
                          case |-> ReinstrumentationFailed]
           /\ ret' = Ok(process_reinstrumentation_error(context))
    /\ pc' = "done"
    /\ UNCHANGED <<dispatch, program_id, others_vars>>

Next ==
    \/ Process
    \/ ProcessNonExecutable
    \/ ProcessReinstrumentationError

Spec == Init /\ [][Next]_<<vars, others_vars>>

\* No dispatch is being processed (the state of the other specifications).
ProcessingIdle ==
    /\ pc = "idle"
    /\ dispatch = None
    /\ program_id = "p1"
    /\ exec_result = [tag |-> "None"]
    /\ invoked = NoCall
    /\ ret = Ok(<<>>)

----------------------------------------------------------------------------
(* Reading a returned journal.                                             *)

\* A journal was returned.
Processed == pc = "done" /\ ret.ok

Journal == ret.journal

NotesOf(j, name) == {i \in 1..Len(j) : j[i].note = name}

Count(j, name) == Cardinality(NotesOf(j, name))

\* The last n notes of j (j itself when it is shorter).
LastNotes(j, n) ==
    IF Len(j) <= n THEN j ELSE SubSeq(j, Len(j) - n + 1, Len(j))

BuiltBy(builder) == Processed /\ invoked.builder = builder

\* The dispatch the invoked builder was given.
BuilderDispatch ==
    IF invoked.builder = "process_success"
    THEN invoked.dispatch_result.dispatch
    ELSE invoked.dispatch

\* The system reservation context the invoked builder was given.
BuilderReservation ==
    IF invoked.builder = "process_success"
    THEN invoked.dispatch_result.system_reservation_context
    ELSE invoked.system_reservation_ctx

\* The outcome the executor (or the pre-charge step) reported.
OutcomeKind ==
    IF exec_result.tag = "Ok" THEN exec_result.res.kind.kind ELSE exec_result.tag

\* A Wait journal was built by process_success.
BuiltWait == BuiltBy("process_success") /\ invoked.kind.kind = "Wait"

----------------------------------------------------------------------------
(* C1: a dispatch that carries a resumption context never yields a         *)
(* SendValue note, in the error-case builder (any case) and in the success *)
(* builder (Success, Wait, Exit), whatever its value.                      *)

C1_NoSendValueOnResume ==
    (/\ Processed
     /\ invoked.builder \in {"process_error", "process_success"}
     /\ is_some(BuilderDispatch.context))
    => Count(Journal, "SendValue") = 0

C1_Witness ==
    /\ BuiltBy("process_error")
    /\ is_some(BuilderDispatch.context)
    /\ BuilderDispatch.message.value = 100
    /\ Count(Journal, "SendValue") = 0

----------------------------------------------------------------------------
(* C2: process_success with kind Success on a dispatch that is not a reply *)
(* and not a signal, with no explicit reply sent, journals exactly one     *)
(* SendDispatch note that carries the auto-reply: a reply to the dispatch  *)
(* id, from the program to the dispatch source, delay 0, no reservation.   *)

IsAutoReplyNote(n, d, pid) ==
    /\ n.note = "SendDispatch"
    /\ n.message_id = d.message.id
    /\ n.delay = 0
    /\ n.reservation = None
    /\ n.dispatch.kind = "Reply"
    /\ n.dispatch.message.source = pid
    /\ n.dispatch.message.destination = d.message.source
    /\ n.dispatch.message.details
         = Some([to |-> d.message.id,
                 code |-> [reply |-> "Success", reason |-> [reason |-> "Auto"]]])

AutoReplyNotes(j, d, pid) ==
    {i \in 1..Len(j) : IsAutoReplyNote(j[i], d, pid)}

C2_Applies ==
    /\ BuiltBy("process_success")
    /\ invoked.kind.kind = "Success"
    /\ ~is_reply(BuilderDispatch)
    /\ BuilderDispatch.kind # "Signal"
    /\ ~invoked.dispatch_result.reply_sent

\* C2: under C2_Applies exactly one note of the journal is the auto-reply
\* SendDispatch.
C2_ExactlyOneAutoReply ==
    C2_Applies
    => Cardinality(AutoReplyNotes(Journal, BuilderDispatch, program_id)) = 1

C2_Witness ==
    /\ C2_Applies
    /\ BuilderDispatch.kind = "Init"
    /\ Len(invoked.dispatch_result.generated_dispatches) = 2
    /\ Count(Journal, "SendDispatch") = 3
    /\ Cardinality(AutoReplyNotes(Journal, BuilderDispatch, program_id)) = 1

----------------------------------------------------------------------------
(* C3: a returned journal ends with MessageDispatched, MessageConsumed;    *)
(* except for Wait, where the last note is WaitDispatch and neither of the *)
(* two occurs, and for GasAllowanceExceed, where the journal is the single *)
(* note StopProcessing.                                                    *)

C3_JournalEnding ==
    Processed =>
        IF OutcomeKind = "Wait"
        THEN /\ Len(Journal) >= 1
             /\ Journal[Len(Journal)].note = "WaitDispatch"
             /\ Count(Journal, "MessageDispatched") = 0
             /\ Count(Journal, "MessageConsumed") = 0
        ELSE IF OutcomeKind = "GasAllowanceExceed"
        THEN /\ Len(Journal) = 1
             /\ Journal[1].note = "StopProcessing"
        ELSE /\ Len(Journal) >= 2
             /\ Journal[Len(Journal) - 1].note = "MessageDispatched"
             /\ Journal[Len(Journal)].note = "MessageConsumed"

C3_Witness ==
    /\ Processed
    /\ OutcomeKind = "Wait"
    /\ Len(Journal) > 3
    /\ Journal[Len(Journal)].note = "WaitDispatch"

----------------------------------------------------------------------------
(* C4: when a system reservation exists and the outcome is not Wait, the   *)
(* journal holds exactly one SystemReserveGas and exactly one              *)
(* SystemUnreserveGas, the first strictly before the second.               *)

C4_Applies ==
    /\ Processed
    /\ invoked.builder \in {"process_error", "process_success"}
    /\ ~BuiltWait
    /\ is_some(BuilderReservation.current_reservation)

\* C4: under C4_Applies one SystemReserveGas, one SystemUnreserveGas, in
\* this order.
C4_ReserveBeforeUnreserve ==
    C4_Applies =>
        /\ Count(Journal, "SystemReserveGas") = 1
        /\ Count(Journal, "SystemUnreserveGas") = 1
        /\ \A i \in NotesOf(Journal, "SystemReserveGas") :
             \A k \in NotesOf(Journal, "SystemUnreserveGas") : i < k

C4_Witness ==
    /\ C4_Applies
    /\ BuiltBy("process_success")
    /\ invoked.kind.kind = "Exit"
    /\ Count(Journal, "SystemReserveGas") = 1
    /\ Count(Journal, "SystemUnreserveGas") = 1

----------------------------------------------------------------------------
(* Notes spelled out, for the scenarios.                                   *)

GasBurnedNote(d, amount) ==
    [note |-> "GasBurned", message_id |-> d.message.id, amount |-> amount]

SystemReserveGasNote(d, amount) ==
    [note |-> "SystemReserveGas", message_id |-> d.message.id, amount |-> amount]

SystemUnreserveGasNote(d) ==
    [note |-> "SystemUnreserveGas", message_id |-> d.message.id]

SendSignalNote(d, pid, reason) ==
    [note |-> "SendSignal", message_id |-> d.message.id, destination |-> pid,
     code |-> [signal |-> "Execution", simple |-> as_simple(reason)]]

\* The system error reply to d for a failed execution.
ErrorReplyNote(d, pid, reason) ==
    [note |-> "SendDispatch", message_id |-> d.message.id,
     dispatch |->
        [kind |-> "Reply",
         message |->
            [id |-> generate_reply(d.message.id), source |-> pid,
             destination |-> d.message.source,
             payload |-> reason_to_string(reason), value |-> 0,
             details |->
                Some([to |-> d.message.id,
                      code |-> [reply |-> "Error",
                                reason |-> [reason |-> "Execution",
                                            simple |-> as_simple(reason)]]])]],
     delay |-> 0, reservation |-> None]

MessageDispatchedNote(d, outcome) ==
    [note |-> "MessageDispatched", message_id |-> d.message.id,
     source |-> d.message.source, outcome |-> outcome]

MessageConsumedNote(d) ==
    [note |-> "MessageConsumed", message_id |-> d.message.id]

InitFailure(d, pid, reason) ==
    [outcome |-> "InitFailure", program_id |-> pid,
     origin |-> d.message.source, reason |-> reason_to_string(reason)]

\* The stored form of incoming dispatch d at program pid, with context c.
StoredForm(d, pid, c) ==
    [kind |-> d.kind,
     message |-> [id |-> d.message.id, source |-> d.message.source,
                  destination |-> pid, value |-> d.message.value,
                  details |-> d.message.details],
     context |-> c]

----------------------------------------------------------------------------
(* C5 (Scenario A): an Init dispatch with no value that is not a reply     *)
(* traps while a system reservation of 50 exists.                          *)

C5_Applies ==
    /\ Processed
    /\ OutcomeKind = "Trap"
    /\ dispatch.kind = "Init"
    /\ dispatch.message.value = 0
    /\ ~is_reply(dispatch)
    /\ exec_result.res.system_reservation_context.current_reservation = Some(50)

C5_TrapReason ==
    [reason |-> "Trap", explanation |-> exec_result.res.kind.explanation]

\* C5 as claimed: the journal is exactly GasBurned, SystemReserveGas(50),
\* SendSignal(Execution(trap code)), SystemUnreserveGas, the error reply,
\* MessageDispatched{InitFailure}, MessageConsumed.
C5_ScenarioA_AsClaimed ==
    C5_Applies =>
        Journal = <<GasBurnedNote(dispatch, exec_result.res.gas_burned),
                    SystemReserveGasNote(dispatch, 50),
                    SendSignalNote(dispatch, program_id, C5_TrapReason),
                    SystemUnreserveGasNote(dispatch),
                    ErrorReplyNote(dispatch, program_id, C5_TrapReason),
                    MessageDispatchedNote(dispatch,
                        InitFailure(dispatch, program_id, C5_TrapReason)),
                    MessageConsumedNote(dispatch)>>

\* C5 as amended: the same journal without the SendSignal note (no signal is
\* raised for a failed Init dispatch): GasBurned, SystemReserveGas(50),
\* SystemUnreserveGas, the error reply, MessageDispatched{InitFailure},
\* MessageConsumed.
C5_ScenarioA ==
    C5_Applies =>
        Journal = <<GasBurnedNote(dispatch, exec_result.res.gas_burned),
                    SystemReserveGasNote(dispatch, 50),
                    SystemUnreserveGasNote(dispatch),
                    ErrorReplyNote(dispatch, program_id, C5_TrapReason),
                    MessageDispatchedNote(dispatch,
                        InitFailure(dispatch, program_id, C5_TrapReason)),
                    MessageConsumedNote(dispatch)>>

C5_Witness ==
    /\ C5_Applies
    /\ Len(Journal) = 6
    /\ Count(Journal, "SendSignal") = 0
    /\ Journal[5].outcome.outcome = "InitFailure"

----------------------------------------------------------------------------
(* C6 (Scenario B): a Handle dispatch (not a reply) with value 100 and no  *)
(* resumption context finishes with Success and no explicit reply.         *)

C6_Applies ==
    /\ BuiltBy("process_success")
    /\ invoked.kind.kind = "Success"
    /\ BuilderDispatch.kind = "Handle"
    /\ ~is_reply(BuilderDispatch)
    /\ BuilderDispatch.message.value = 100
    /\ is_none(BuilderDispatch.context)
    /\ ~invoked.dispatch_result.reply_sent

C6_SendValueNote ==
    [note |-> "SendValue", from |-> BuilderDispatch.message.source,
     to |-> Some(program_id), value |-> 100]

C6_Ending(j) ==
    /\ Len(j) >= 2
    /\ j[Len(j) - 1]
         = MessageDispatchedNote(BuilderDispatch, [outcome |-> "Success"])
    /\ j[Len(j)] = MessageConsumedNote(BuilderDispatch)

\* C6 as claimed: the first two notes are GasBurned and SendValue to the
\* program and the last three are the auto-reply, MessageDispatched{Success}
\* and MessageConsumed, whatever else the execution produced.
C6_ScenarioB_AsClaimed ==
    C6_Applies =>
        /\ Len(Journal) >= 5
        /\ Journal[1].note = "GasBurned"
        /\ Journal[2] = C6_SendValueNote
        /\ IsAutoReplyNote(Journal[Len(Journal) - 2], BuilderDispatch, program_id)
        /\ C6_Ending(Journal)

\* C6 as amended: GasBurned is first; the one SendValue to the program
\* follows it, separated only by ReserveGas, UnreserveGas,
\* UpdateGasReservations and SystemReserveGas notes; the one auto-reply
\* follows SendValue, separated only by StoreNewPrograms notes; the journal
\* ends MessageDispatched{Success}, MessageConsumed, and between the
\* auto-reply and these two lie only ReplyDeposit, SendDispatch,
\* WakeMessage, UpdatePage, UpdateAllocations and SystemUnreserveGas notes.
C6_ScenarioB ==
    C6_Applies =>
        LET j == Journal
            sv == NotesOf(j, "SendValue")
            ar == AutoReplyNotes(j, BuilderDispatch, program_id)
        IN /\ Len(j) >= 5
           /\ j[1] = GasBurnedNote(BuilderDispatch,
                                   invoked.dispatch_result.gas_burned)
           /\ Cardinality(sv) = 1
           /\ Cardinality(ar) = 1
           /\ \A v \in sv : \A a \in ar :
                /\ j[v] = C6_SendValueNote
                /\ v < a
                /\ \A i \in 2..(v - 1) :
                     j[i].note \in {"ReserveGas", "UnreserveGas",
                                    "UpdateGasReservations", "SystemReserveGas"}
                /\ \A i \in (v + 1)..(a - 1) : j[i].note = "StoreNewPrograms"
                /\ \A i \in (a + 1)..(Len(j) - 2) :
                     j[i].note \in {"ReplyDeposit", "SendDispatch",
                                    "WakeMessage", "UpdatePage",
                                    "UpdateAllocations", "SystemUnreserveGas"}
           /\ C6_Ending(j)

C6_Witness ==
    /\ C6_Applies
    /\ is_some(invoked.dispatch_result.gas_reserver)
    /\ Len(invoked.dispatch_result.generated_dispatches) = 1
    /\ Journal[2].note # "SendValue"
    /\ ~IsAutoReplyNote(Journal[Len(Journal) - 2], BuilderDispatch, program_id)
    /\ C6_Ending(Journal)

----------------------------------------------------------------------------
(* C7 (Scenario C): for a Wait outcome every effect recorded before the    *)
(* suspension is journaled and WaitDispatch is the last note, carrying the *)
(* stored dispatch with the context store, the duration and the wait type; *)
(* the journal has no MessageDispatched, MessageConsumed or                *)
(* SystemUnreserveGas note, even if a system reservation exists.           *)

ReservationsIn(reserver, state) ==
    IF is_some(reserver)
    THEN Cardinality({k \in DOMAIN reserver[1] : reserver[1][k].state = state})
    ELSE 0

OneIf(b) == IF b THEN 1 ELSE 0

\* C7: a Wait journal is the notes of every recorded effect, then
\* WaitDispatch; nothing consumes the message or unwinds the reservation.
C7_ScenarioC ==
    BuiltWait =>
        LET j == Journal
            r == invoked.dispatch_result
        IN /\ j[Len(j)]
                = [note |-> "WaitDispatch",
                   dispatch |-> StoredForm(r.dispatch, program_id,
                                           Some(r.context_store)),
                   duration |-> invoked.kind.duration,
                   waited_type |-> invoked.kind.waited_type]
           /\ Count(j, "WaitDispatch") = 1
           /\ Count(j, "MessageDispatched") = 0
           /\ Count(j, "MessageConsumed") = 0
           /\ Count(j, "SystemUnreserveGas") = 0
           /\ j[1] = GasBurnedNote(r.dispatch, r.gas_burned)
           /\ Count(j, "ReserveGas") = ReservationsIn(r.gas_reserver, "Created")
           /\ Count(j, "UnreserveGas") = ReservationsIn(r.gas_reserver, "Removed")
           /\ Count(j, "UpdateGasReservations") = OneIf(is_some(r.gas_reserver))
           /\ Count(j, "SystemReserveGas")
                = OneIf(is_some(r.system_reservation_context.current_reservation))
           /\ Count(j, "SendValue")
                = OneIf(is_none(r.dispatch.context) /\ r.dispatch.message.value # 0)
           /\ Count(j, "StoreNewPrograms") = Len(r.program_candidates)
           /\ Count(j, "ReplyDeposit") = Len(r.reply_deposits)
           /\ Count(j, "SendDispatch") = Len(r.generated_dispatches)
           /\ Count(j, "WakeMessage") = Len(r.awakening)
           /\ Count(j, "UpdatePage") = Len(r.page_update)
           /\ Count(j, "UpdateAllocations") = OneIf(is_some(r.allocations))

C7_Witness ==
    /\ BuiltWait
    /\ is_some(invoked.dispatch_result.system_reservation_context.current_reservation)
    /\ Len(invoked.dispatch_result.generated_dispatches) = 1
    /\ Len(invoked.dispatch_result.awakening) = 1
    /\ Journal[Len(Journal)].note = "WaitDispatch"
    /\ Count(Journal, "SystemUnreserveGas") = 0

----------------------------------------------------------------------------
(* C8 (Scenario D): when the executor reports GasAllowanceExceed the       *)
(* journal is the single note StopProcessing, with the gas burned so far   *)
(* and the incoming dispatch in stored form: same kind, same message, same *)
(* resumption context (present iff the incoming dispatch had one).         *)

C8_Applies == Processed /\ OutcomeKind = "GasAllowanceExceed"

\* C8: the allowance abort journals exactly StopProcessing{stored dispatch,
\* gas burned}.
C8_ScenarioD ==
    C8_Applies =>
        Journal = <<[note |-> "StopProcessing",
                     dispatch |-> StoredForm(dispatch, program_id,
                                             dispatch.context),
                     gas_burned |-> exec_result.res.gas_burned]>>

C8_Witness ==
    /\ C8_Applies
    /\ exec_result.res.gas_burned = 12345
    /\ is_some(dispatch.context)
    /\ Len(Journal) = 1
    /\ Journal[1].gas_burned = 12345
    /\ is_some(Journal[1].dispatch.context)

----------------------------------------------------------------------------
(* C9 (Scenario E): a reply with value 7 and no resumption context sent to *)
(* a non-executable destination: the journal holds the SendValue refund to *)
(* the sender, no SendSignal, no SendDispatch, and ends with               *)
(* MessageDispatched{NoExecution}, MessageConsumed.                        *)

C9_Applies ==
    /\ Processed
    /\ exec_result.tag = "NonExecutable"
    /\ is_reply(dispatch)
    /\ dispatch.message.value = 7
    /\ is_none(dispatch.context)

\* C9: refund present, no SendSignal, no SendDispatch, ending
\* MessageDispatched{NoExecution}, MessageConsumed.
C9_ScenarioE ==
    C9_Applies =>
        /\ \E i \in 1..Len(Journal) :
             Journal[i] = [note |-> "SendValue",
                           from |-> dispatch.message.source,
                           to |-> None, value |-> 7]
        /\ Count(Journal, "SendSignal") = 0
        /\ Count(Journal, "SendDispatch") = 0
        /\ LastNotes(Journal, 2)
             = <<MessageDispatchedNote(dispatch, [outcome |-> "NoExecution"]),
                 MessageConsumedNote(dispatch)>>

C9_Witness ==
    /\ C9_Applies
    /\ dispatch.kind = "Reply"
    /\ Count(Journal, "SendValue") = 1
    /\ Count(Journal, "SendDispatch") = 0

----------------------------------------------------------------------------
(* C10: process returns an error and no journal exactly when the executor  *)
(* reports a system error; for every actor-level outcome it returns Ok     *)
(* with a journal that is not empty.                                       *)

C10_Applies == pc = "done" /\ exec_result.tag \in {"Ok", "Actor", "System"}

\* C10: Err iff the executor's error is a system error; otherwise Ok with at
\* least one note.
C10_OnlySystemErrorIsFatal ==
    C10_Applies =>
        /\ ~ret.ok <=> exec_result.tag = "System"
        /\ ~ret.ok => /\ "journal" \notin DOMAIN ret
                      /\ ret.error = exec_result.error
        /\ ret.ok => Len(ret.journal) >= 1

C10_Witness ==
    /\ C10_Applies
    /\ exec_result.tag = "System"
    /\ ~ret.ok
    /\ ret.error = "Environment"

----------------------------------------------------------------------------
(* C11: process hands each executor result to one builder: Trap to         *)
(* process_error with ExecutionFailed(Trap(reason)), the result's gas and  *)
(* the result's reservation context; Success, Wait and Exit to             *)
(* process_success with the same kind; GasAllowanceExceed to               *)
(* process_allowance_exceed; an actor error to process_error with          *)
(* ExecutionFailed(reason), the gas attached to the error and the          *)
(* reservation context computed from the dispatch before the execution.    *)
(* The journal returned is that builder's.                                 *)

C11_Applies == pc = "done" /\ exec_result.tag \in {"Ok", "Actor"}

C11_ExpectedCall ==
    IF exec_result.tag = "Actor"
    THEN [builder |-> "process_error", dispatch |-> dispatch,
          program_id |-> program_id, gas_burned |-> exec_result.gas_burned,
          system_reservation_ctx |-> from_dispatch(dispatch),
          case |-> [case |-> "ExecutionFailed", reason |-> exec_result.reason]]
    ELSE IF OutcomeKind = "Trap"
    THEN [builder |-> "process_error", dispatch |-> exec_result.res.dispatch,
          program_id |-> program_id,
          gas_burned |-> exec_result.res.gas_burned,
          system_reservation_ctx |-> exec_result.res.system_reservation_context,
          case |-> [case |-> "ExecutionFailed",
                    reason |-> [reason |-> "Trap",
                                explanation |-> exec_result.res.kind.explanation]]]
    ELSE IF OutcomeKind = "GasAllowanceExceed"
    THEN [builder |-> "process_allowance_exceed", dispatch |-> dispatch,
          program_id |-> program_id,
          gas_burned |-> exec_result.res.gas_burned]
    ELSE [builder |-> "process_success", kind |-> exec_result.res.kind,
          dispatch_result |-> exec_result.res]

C11_ExpectedJournal ==
    LET c == C11_ExpectedCall
    IN IF c.builder = "process_error"
       THEN process_error(c.dispatch, c.program_id, c.gas_burned,
                          c.system_reservation_ctx, c.case)
       ELSE IF c.builder = "process_allowance_exceed"
       THEN process_allowance_exceed(c.dispatch, c.program_id, c.gas_burned)
       ELSE process_success(c.kind, c.dispatch_result)

\* C11: the builder called, its arguments and the journal returned are the
\* ones the routing table gives for the executor's result.
C11_Routing ==
    C11_Applies =>
        /\ invoked = C11_ExpectedCall
        /\ ret.ok
        /\ Journal = C11_ExpectedJournal

C11_Witness ==
    /\ C11_Applies
    /\ exec_result.tag = "Actor"
    /\ exec_result.gas_burned = 12345
    /\ is_some(from_dispatch(dispatch).current_reservation)
    /\ invoked.builder = "process_error"
    /\ invoked.gas_burned = 12345
    /\ invoked.system_reservation_ctx = from_dispatch(dispatch)
    /\ Count(Journal, "SystemUnreserveGas") = 1

----------------------------------------------------------------------------
(* C13: the journal of a fully processed dispatch (process_error, or       *)
(* process_success with Success or Exit) holds exactly one                 *)
(* MessageDispatched note, with its one outcome, and exactly one           *)
(* MessageConsumed note; a Wait or allowance-abort journal holds neither.  *)

FullyProcessed ==
    \/ BuiltBy("process_error")
    \/ BuiltBy("process_success") /\ invoked.kind.kind \in {"Success", "Exit"}

Suspended == BuiltWait \/ BuiltBy("process_allowance_exceed")

DispatchOutcomes ==
    {"Success", "InitSuccess", "InitFailure", "MessageTrap", "Exit", "NoExecution"}

\* C13: one MessageDispatched and one MessageConsumed when fully processed,
\* none of either when the dispatch waits or the allowance ran out.
C13_OneOutcome ==
    /\ FullyProcessed =>
          /\ Count(Journal, "MessageDispatched") = 1
          /\ Count(Journal, "MessageConsumed") = 1
          /\ \A i \in NotesOf(Journal, "MessageDispatched") :
               Journal[i].outcome.outcome \in DispatchOutcomes
    /\ Suspended =>
          /\ Count(Journal, "MessageDispatched") = 0
          /\ Count(Journal, "MessageConsumed") = 0

C13_Witness ==
    /\ BuiltBy("process_success")
    /\ invoked.kind.kind = "Exit"
    /\ Count(Journal, "MessageDispatched") = 1
    /\ Count(Journal, "MessageConsumed") = 1
    /\ Journal[Len(Journal) - 1].outcome.outcome = "Exit"

----------------------------------------------------------------------------
(* C14: in a journal of process_success every StoreNewPrograms note comes  *)
(* before every SendDispatch note (auto-reply and sub-dispatches), and     *)
(* there is one StoreNewPrograms note per (code id, candidates) entry.     *)

StoreNewProgramsNote(pid, entry) ==
    [note |-> "StoreNewPrograms", program_id |-> pid,
     code_id |-> entry.code_id, candidates |-> entry.candidates]

\* C14: the k-th StoreNewPrograms note carries the k-th entry, there are no
\* others, and all of them precede all SendDispatch notes.
C14_ProgramsBeforeDispatches ==
    BuiltBy("process_success") =>
        LET j == Journal
            entries == invoked.dispatch_result.program_candidates
            stored == NotesOf(j, "StoreNewPrograms")
        IN /\ Cardinality(stored) = Len(entries)
           /\ \A k \in 1..Len(entries) :
                \E i \in stored :
                    /\ Cardinality({h \in stored : h < i}) = k - 1
                    /\ j[i] = StoreNewProgramsNote(program_id, entries[k])
           /\ \A i \in stored : \A k \in NotesOf(j, "SendDispatch") : i < k

C14_Witness ==
    /\ BuiltBy("process_success")
    /\ invoked.kind.kind = "Success"
    /\ Len(invoked.dispatch_result.program_candidates) = 1
    /\ Len(invoked.dispatch_result.generated_dispatches) = 1
    /\ Count(Journal, "StoreNewPrograms") = 1
    /\ Count(Journal, "SendDispatch") = 2

----------------------------------------------------------------------------
(* C15: how the journal of process_error or process_success closes a       *)
(* system reservation that is present.                                     *)

C15_Reserved ==
    /\ Processed
    /\ invoked.builder \in {"process_error", "process_success"}
    /\ is_some(BuilderReservation.current_reservation)

\* C15 as stated, for a dispatch that does not wait: with a reservation
\* present the journal holds a SendSignal or a SystemUnreserveGas, never
\* both and never neither.
C15_SettledOnce_AsClaimed ==
    (C15_Reserved /\ ~BuiltWait) =>
        Count(Journal, "SendSignal") + Count(Journal, "SystemUnreserveGas") = 1

\* C15: with a reservation present a fully processed dispatch has exactly one
\* SystemUnreserveGas, and at most one SendSignal which comes in addition
\* to it and before it; a Wait journal has neither note.
C15_SettledOnce ==
    C15_Reserved =>
        IF BuiltWait
        THEN /\ Count(Journal, "SendSignal") = 0
             /\ Count(Journal, "SystemUnreserveGas") = 0
        ELSE /\ Count(Journal, "SystemUnreserveGas") = 1
             /\ Count(Journal, "SendSignal") <= 1
             /\ \A i \in NotesOf(Journal, "SendSignal") :
                  \A k \in NotesOf(Journal, "SystemUnreserveGas") : i < k

C15_Witness ==
    /\ C15_Reserved
    /\ BuiltBy("process_error")
    /\ invoked.case.case = "ExecutionFailed"
    /\ invoked.dispatch.kind = "Handle"
    /\ ~is_reply(invoked.dispatch)
    /\ Count(Journal, "SendSignal") = 1
    /\ Count(Journal, "SystemUnreserveGas") = 1

----------------------------------------------------------------------------
(* C16: when process_error raises a signal, and what the signal carries.   *)

C16_SignalDue ==
    /\ invoked.case.case = "ExecutionFailed"
    /\ is_some(invoked.system_reservation_ctx.current_reservation)
    /\ ~(/\ invoked.dispatch.message.details # None
         /\ invoked.dispatch.message.details[1].code.reply = "Error")
    /\ invoked.dispatch.kind \notin {"Signal", "Init"}

\* C16: process_error emits one SendSignal, to the program and with code
\* Execution(simple reason), exactly when C16_SignalDue; otherwise none.
C16_SendSignal ==
    BuiltBy("process_error") =>
        IF C16_SignalDue
        THEN /\ Count(Journal, "SendSignal") = 1
             /\ \A i \in NotesOf(Journal, "SendSignal") :
                  Journal[i] = SendSignalNote(invoked.dispatch, program_id,
                                              invoked.case.reason)
        ELSE Count(Journal, "SendSignal") = 0

C16_Witness ==
    /\ BuiltBy("process_error")
    /\ C16_SignalDue
    /\ invoked.dispatch.kind = "Reply"
    /\ invoked.dispatch.message.details # None
    /\ Count(Journal, "SendSignal") = 1

----------------------------------------------------------------------------
(* C17: when process_error answers with a system error reply.              *)

\* Reason code and text of the error reply, by case.
C17_Reason ==
    IF invoked.case.case = "NonExecutable"
    THEN [reason |-> "InactiveActor"]
    ELSE IF invoked.case.case = "ReinstrumentationFailed"
    THEN [reason |-> "ReinstrumentationFailure"]
    ELSE [reason |-> "Execution", simple |-> as_simple(invoked.case.reason)]

C17_Payload ==
    IF invoked.case.case = "NonExecutable" THEN "InactiveActor"
    ELSE IF invoked.case.case = "ReinstrumentationFailed"
    THEN "ReinstrumentationFailure"
    ELSE reason_to_string(invoked.case.reason)

C17_ErrorReply ==
    LET d == invoked.dispatch
    IN [note |-> "SendDispatch", message_id |-> d.message.id,
        dispatch |->
           [kind |-> "Reply",
            message |->
               [id |-> generate_reply(d.message.id), source |-> program_id,
                destination |-> d.message.source,
                payload |-> C17_Payload, value |-> 0,
                details |-> Some([to |-> d.message.id,
                                  code |-> [reply |-> "Error",
                                            reason |-> C17_Reason]])]],
        delay |-> 0, reservation |-> None]

C17_ReplyDue ==
    invoked.dispatch.message.details = None /\ invoked.dispatch.kind # "Signal"

\* C17: in every case process_error emits the error reply, as its only
\* SendDispatch, exactly when the dispatch is neither a reply nor a signal;
\* otherwise the journal has no SendDispatch.
C17_ErrorReplyIffNotReplyNorSignal ==
    BuiltBy("process_error") =>
        IF C17_ReplyDue
        THEN /\ Count(Journal, "SendDispatch") = 1
             /\ \A i \in NotesOf(Journal, "SendDispatch") :
                  Journal[i] = C17_ErrorReply
        ELSE Count(Journal, "SendDispatch") = 0

C17_Witness ==
    /\ BuiltBy("process_error")
    /\ invoked.case.case = "ReinstrumentationFailed"
    /\ C17_ReplyDue
    /\ Count(Journal, "SendDispatch") = 1

----------------------------------------------------------------------------
(* C18: the outcome of MessageDispatched, by builder case and dispatch     *)
(* kind.                                                                   *)

C18_ExpectedOutcome ==
    LET d == BuilderDispatch
    IN IF invoked.builder = "process_error"
       THEN IF invoked.case.case = "NonExecutable"
            THEN [outcome |-> "NoExecution"]
            ELSE IF d.kind = "Init"
            THEN [outcome |-> "InitFailure", program_id |-> program_id,
                  origin |-> d.message.source, reason |-> C17_Payload]
            ELSE [outcome |-> "MessageTrap", program_id |-> program_id,
                  trap |-> C17_Payload]
       ELSE IF invoked.kind.kind = "Exit"
       THEN [outcome |-> "Exit", program_id |-> program_id]
       ELSE IF d.kind = "Init"
       THEN [outcome |-> "InitSuccess", program_id |-> program_id]
       ELSE [outcome |-> "Success"]

C18_ExitDispatchNote ==
    [note |-> "ExitDispatch", id_exited |-> program_id,
     value_destination |-> invoked.kind.value_destination]

\* C18: the MessageDispatched note of a fully processed dispatch carries
\* C18_ExpectedOutcome; an Exit journal has one ExitDispatch note, with the
\* given value destination, before it, and no other journal has one.
C18_Outcome ==
    FullyProcessed =>
        LET j == Journal
        IN /\ \A i \in NotesOf(j, "MessageDispatched") :
                /\ j[i].outcome = C18_ExpectedOutcome
                /\ \A k \in NotesOf(j, "ExitDispatch") : k < i
           /\ Count(j, "MessageDispatched") = 1
           /\ IF BuiltBy("process_success") /\ invoked.kind.kind = "Exit"
              THEN /\ Count(j, "ExitDispatch") = 1
                   /\ \A k \in NotesOf(j, "ExitDispatch") :
                        j[k] = C18_ExitDispatchNote
              ELSE Count(j, "ExitDispatch") = 0

C18_Witness ==
    /\ BuiltBy("process_error")
    /\ invoked.case.case = "NonExecutable"
    /\ invoked.dispatch.kind = "Init"
    /\ Journal[Len(Journal) - 1].note = "MessageDispatched"
    /\ Journal[Len(Journal) - 1].outcome.outcome = "NoExecution"

----------------------------------------------------------------------------
(* C19: the gas reserver notes of process_success.                         *)

C19_ReserveGasNote(id, state) ==
    [note |-> "ReserveGas", message_id |-> BuilderDispatch.message.id,
     reservation_id |-> id, program_id |-> program_id,
     amount |-> state.amount, duration |-> state.duration]

C19_UnreserveGasNote(id, state) ==
    [note |-> "UnreserveGas", reservation_id |-> id,
     program_id |-> program_id, expiration |-> state.expiration]

\* C19: with a reserver, one ReserveGas per Created entry, one UnreserveGas
\* per Removed entry, nothing for Exists, then one UpdateGasReservations
\* with the whole reserver; without a reserver none of the three.
C19_GasReserverNotes ==
    BuiltBy("process_success") =>
        LET j == Journal
            reserver == invoked.dispatch_result.gas_reserver
            deltas == NotesOf(j, "ReserveGas") \cup NotesOf(j, "UnreserveGas")
        IN IF reserver = None
           THEN /\ deltas = {}
                /\ Count(j, "UpdateGasReservations") = 0
           ELSE LET states == reserver[1]
                IN /\ \A id \in DOMAIN states :
                        LET notes == {i \in deltas : j[i].reservation_id = id}
                        IN IF states[id].state = "Created"
                           THEN /\ Cardinality(notes) = 1
                                /\ \A i \in notes :
                                     j[i] = C19_ReserveGasNote(id, states[id])
                           ELSE IF states[id].state = "Removed"
                           THEN /\ Cardinality(notes) = 1
                                /\ \A i \in notes :
                                     j[i] = C19_UnreserveGasNote(id, states[id])
                           ELSE notes = {}
                   /\ \A i \in deltas : j[i].reservation_id \in DOMAIN states
                   /\ Count(j, "UpdateGasReservations") = 1
                   /\ \A u \in NotesOf(j, "UpdateGasReservations") :
                        /\ j[u] = [note |-> "UpdateGasReservations",
                                   program_id |-> program_id,
                                   reserver |-> states]
                        /\ \A i \in deltas : i < u

C19_Witness ==
    /\ BuiltBy("process_success")
    /\ invoked.dispatch_result.gas_reserver # None
    /\ ReservationsIn(invoked.dispatch_result.gas_reserver, "Exists") = 1
    /\ ReservationsIn(invoked.dispatch_result.gas_reserver, "Created") = 0
    /\ ReservationsIn(invoked.dispatch_result.gas_reserver, "Removed") = 0
    /\ Count(Journal, "UpdateGasReservations") = 1

----------------------------------------------------------------------------
(* C20: when a journal transfers the value of the dispatch.                *)

C20_ValueDue ==
    BuilderDispatch.context = None /\ BuilderDispatch.message.value # 0

\* C20 as stated, for every journal: a SendValue note is present exactly
\* when the dispatch has no resumption context and a non-zero value.
C20_SendValueIff_AsClaimed ==
    Processed => (Count(Journal, "SendValue") >= 1 <=> C20_ValueDue)

\* C20: process_error and process_success emit one SendValue of the whole
\* value exactly when C20_ValueDue, from the source, with no destination in
\* process_error and to the program in process_success; the journal of
\* process_allowance_exceed never has a SendValue.
C20_SendValue ==
    Processed =>
        LET j == Journal
            d == BuilderDispatch
        IN IF invoked.builder = "process_allowance_exceed" \/ ~C20_ValueDue
           THEN Count(j, "SendValue") = 0
           ELSE /\ Count(j, "SendValue") = 1
                /\ \A i \in NotesOf(j, "SendValue") :
                     j[i] = [note |-> "SendValue", from |-> d.message.source,
                             to |-> IF invoked.builder = "process_error"
                                    THEN None ELSE Some(program_id),
                             value |-> d.message.value]

C20_Witness ==
    /\ BuiltBy("process_error")
    /\ invoked.case.case = "NonExecutable"
    /\ C20_ValueDue
    /\ BuilderDispatch.message.value = 7
    /\ Count(Journal, "SendValue") = 1

----------------------------------------------------------------------------
(* C21: the fixed order of the notes of process_error.                     *)

\* Position of each note type in the order of process_error.
C21_Position ==
    [GasBurned |-> 1, SendValue |-> 2, SystemReserveGas |-> 3,
     SendSignal |-> 4, SystemUnreserveGas |-> 5, SendDispatch |-> 6,
     MessageDispatched |-> 7, MessageConsumed |-> 8]

\* C21: a journal of process_error holds only notes of the eight types, each
\* at most once and in the fixed order; it starts with GasBurned carrying
\* the burned gas, and a SendSignal has SystemReserveGas before it and
\* SystemUnreserveGas after it.
C21_ErrorOrder ==
    BuiltBy("process_error") =>
        LET j == Journal
        IN /\ \A i \in 1..Len(j) : j[i].note \in DOMAIN C21_Position
           /\ \A i, k \in 1..Len(j) :
                i < k => C21_Position[j[i].note] < C21_Position[j[k].note]
           /\ Len(j) >= 1
           /\ j[1] = [note |-> "GasBurned",
                      message_id |-> invoked.dispatch.message.id,
                      amount |-> invoked.gas_burned]
           /\ \A i \in NotesOf(j, "SendSignal") :
                /\ \E r \in NotesOf(j, "SystemReserveGas") : r < i
                /\ \E u \in NotesOf(j, "SystemUnreserveGas") : i < u

C21_Witness ==
    /\ BuiltBy("process_error")
    /\ invoked.gas_burned = 12345
    /\ Len(Journal) = 8
    /\ Journal[4].note = "SendSignal"

----------------------------------------------------------------------------
(* C22: the group order of the notes of process_success.                   *)

\* Group of a note of process_success for dispatch d at program pid.
C22_Group(n, d, pid) ==
    IF n.note = "SendDispatch"
    THEN IF IsAutoReplyNote(n, d, pid) THEN 7 ELSE 9
    ELSE [GasBurned |-> 1, ReserveGas |-> 2, UnreserveGas |-> 2,
          UpdateGasReservations |-> 3, SystemReserveGas |-> 4,
          SendValue |-> 5, StoreNewPrograms |-> 6, ReplyDeposit |-> 8,
          WakeMessage |-> 10, UpdatePage |-> 11, UpdateAllocations |-> 12,
          WaitDispatch |-> 13, ExitDispatch |-> 13,
          SystemUnreserveGas |-> 14, MessageDispatched |-> 15,
          MessageConsumed |-> 16][n.note]

\* The groups that may hold several notes.
C22_ListGroups == {2, 6, 8, 9, 10, 11}

C22_SubDispatchNote(g, d) ==
    [note |-> "SendDispatch", message_id |-> d.message.id,
     dispatch |-> g.dispatch, delay |-> g.delay, reservation |-> g.reservation]

\* C22: a journal of process_success starts with GasBurned, its notes follow
\* the group order, the single-note groups hold at most one note, the
\* sub-dispatch notes are the generated dispatches in the given order with
\* their delay and reservation, and the journal ends with WaitDispatch or
\* with MessageDispatched, MessageConsumed.
C22_SuccessOrder ==
    BuiltBy("process_success") =>
        LET j == Journal
            d == BuilderDispatch
            r == invoked.dispatch_result
            G(i) == C22_Group(j[i], d, program_id)
            IsSub(n) == C22_Group(n, d, program_id) = 9
        IN /\ Len(j) >= 2
           /\ j[1] = [note |-> "GasBurned", message_id |-> d.message.id,
                      amount |-> r.gas_burned]
           /\ \A i, k \in 1..Len(j) :
                i < k => /\ G(i) <= G(k)
                         /\ G(i) = G(k) => G(i) \in C22_ListGroups
           /\ SelectSeq(j, IsSub)
                = [i \in 1..Len(r.generated_dispatches) |->
                     C22_SubDispatchNote(r.generated_dispatches[i], d)]
           /\ IF invoked.kind.kind = "Wait"
              THEN /\ j[Len(j)].note = "WaitDispatch"
                   /\ Count(j, "ExitDispatch") = 0
              ELSE /\ j[Len(j)].note = "MessageConsumed"
                   /\ j[Len(j) - 1].note = "MessageDispatched"
                   /\ Count(j, "WaitDispatch") = 0
                   /\ Count(j, "ExitDispatch")
                        = OneIf(invoked.kind.kind = "Exit")

C22_Witness ==
    /\ BuiltBy("process_success")
    /\ invoked.kind.kind = "Success"
    /\ Len(invoked.dispatch_result.generated_dispatches) = 1
    /\ Len(invoked.dispatch_result.awakening) = 1
    /\ Count(Journal, "SendDispatch") = 2
    /\ Count(Journal, "WakeMessage") = 1
    /\ Count(Journal, "SystemUnreserveGas") = 1

----------------------------------------------------------------------------
(***************************************************************************)
(* Storage of hypercore (hypercore/db/src/database.rs, impl Storage for    *)
(* Database): every write_* encodes its value and hands the bytes to the   *)
(* content-addressed store, every read_* fetches the bytes of a hash and   *)
(* decodes them.                                                           *)
(***************************************************************************)

\* Number of write_* calls in one run.
MaxWrites == 2

\* Size of a page buffer and largest payload, in words of the model.
PageSize == 2

MaxPayloadSize == 2

(* The SCALE codec, driven by the type as the derived Encode/Decode are.   *)
(* One word stands for one fixed-width integer; data is a word sequence.   *)

U == [t |-> "u"]

Vec(T) == [t |-> "vec", of |-> T]

Opt(T) == [t |-> "opt", of |-> T]

Tuple(Ts) == [t |-> "tuple", of |-> Ts]

Enum(Ts) == [t |-> "enum", of |-> Ts]

Unit == Tuple(<<>>)

\* Compact<u32> of a length below 64: one byte, the length shifted by two.
compact(n) == n * 4

RECURSIVE encode(_, _), encode_items(_, _), encode_fields(_, _)

\* Encode::encode of value v of type T.
encode(T, v) ==
    IF T.t = "u" THEN <<v>>
    ELSE IF T.t = "vec" THEN <<compact(Len(v))>> \o encode_items(T.of, v)
    ELSE IF T.t = "opt"
    THEN IF v = <<>> THEN <<0>> ELSE <<1>> \o encode(T.of, v[1])
    ELSE IF T.t = "tuple" THEN encode_fields(T.of, v)
    ELSE <<v[1]>> \o encode(T.of[v[1] + 1], v[2])

encode_items(T, items) ==
    IF items = <<>> THEN <<>>
    ELSE encode(T, Head(items)) \o encode_items(T, Tail(items))

encode_fields(Ts, fields) ==
    IF Ts = <<>> THEN <<>>
    ELSE encode(Head(Ts), Head(fields)) \o encode_fields(Tail(Ts), Tail(fields))

Decoded(v, rest) == [ok |-> TRUE, value |-> v, rest |-> rest]

DecodeError == [ok |-> FALSE]

RECURSIVE decode(_, _), decode_items(_, _, _), decode_fields(_, _)

\* Decode::decode of type T from the front of data; what follows the value
\* is left in rest and ignored by the callers.
decode(T, data) ==
    IF T.t = "tuple" THEN decode_fields(T.of, data)
    ELSE IF data = <<>> THEN DecodeError
    ELSE IF T.t = "u" THEN Decoded(Head(data), Tail(data))
    ELSE IF T.t = "vec"
    THEN IF Head(data) % 4 = 0
         THEN decode_items(T.of, Head(data) \div 4, Tail(data))
         ELSE DecodeError
    ELSE IF T.t = "opt"
    THEN IF Head(data) = 0 THEN Decoded(None, Tail(data))
         ELSE IF Head(data) = 1
         THEN LET item  == decode(T.of, Tail(data))
              IN IF item.ok THEN Decoded(Some(item.value), item.rest)
                 ELSE DecodeError
         ELSE DecodeError
    ELSE IF Head(data) < Len(T.of)
    THEN LET item  == decode(T.of[Head(data) + 1], Tail(data))
         IN IF item.ok THEN Decoded(<<Head(data), item.value>>, item.rest)
            ELSE DecodeError
    ELSE DecodeError

decode_items(T, n, data) ==
    IF n = 0 THEN Decoded(<<>>, data)
    ELSE LET first == decode(T, data)
         IN IF ~first.ok THEN DecodeError
            ELSE LET more == decode_items(T, n - 1, first.rest)
                 IN IF more.ok
                    THEN Decoded(<<first.value>> \o more.value, more.rest)
                    ELSE DecodeError

decode_fields(Ts, data) ==
    IF Ts = <<>> THEN Decoded(<<>>, data)
    ELSE LET first == decode(Head(Ts), data)
         IN IF ~first.ok THEN DecodeError
            ELSE LET more == decode_fields(Tail(Ts), first.rest)
                 IN IF more.ok
                    THEN Decoded(<<first.value>> \o more.value, more.rest)
                    ELSE DecodeError

(* The stored types.                                                       *)

\* HashAndLen { hash, len }
HashAndLenT == Tuple(<<U, U>>)

\* MaybeHash: Hash(HashAndLen) | Empty
MaybeHashT == Enum(<<HashAndLenT, Unit>>)

\* ProgramState { queue_hash, allocations_hash, pages_hash,
\*                gas_reservation_map_hash, memory_infix, balance }
ProgramStateT == Tuple(<<MaybeHashT, MaybeHashT, MaybeHashT, MaybeHashT, U, U>>)

\* DispatchKind: Init | Handle | Reply | Signal
DispatchKindT == Enum(<<Unit, Unit, Unit, Unit>>)

\* Dispatch { id, kind, source, payload_hash, gas_limit, value, details,
\*            context }
StateDispatchT ==
    Tuple(<<U, DispatchKindT, U, MaybeHashT, U, U,
            Opt(Tuple(<<U, U>>)), Opt(Tuple(<<U>>))>>)

\* MessageQueue(Vec<Dispatch>)
MessageQueueT == Vec(StateDispatchT)

\* Waitlist: BTreeMap<BlockNumber, Vec<Dispatch>>, encoded as its entries
WaitlistT == Vec(Tuple(<<U, Vec(StateDispatchT)>>))

\* MemoryPages: BTreeMap<GearPage, H256>
MemoryPagesT == Vec(Tuple(<<U, U>>))

\* Allocations: IntervalsTree<WasmPage>, encoded as its (start, end) pairs
AllocationsT == Vec(Tuple(<<U, U>>))

\* GasReservationMap: BTreeMap<ReservationId, GasReservationSlot>
GasReservationMapT == Vec(Tuple(<<U, Tuple(<<U, U, U>>)>>))

(* The values written: a few of every type, maps with ascending keys.      *)

MaybeHashEmpty == <<1, <<>>>>

MaybeHashOf(hash) == <<0, <<hash, 1>>>>

ProgramStates ==
    {<<MaybeHashEmpty, MaybeHashEmpty, MaybeHashEmpty, MaybeHashEmpty, 0, 0>>,
     <<MaybeHashOf(5), MaybeHashEmpty, MaybeHashOf(6), MaybeHashEmpty, 3, 100>>}

StateDispatches ==
    {<<1, <<1, <<>>>>, 9, MaybeHashEmpty, 50, 0, None, None>>,
     <<2, <<2, <<>>>>, 9, MaybeHashOf(5), 0, 7, Some(<<1, 0>>), Some(<<1>>)>>}

MessageQueues ==
    {<<>>,
     <<<<1, <<1, <<>>>>, 9, MaybeHashEmpty, 50, 0, None, None>>>>,
     <<<<2, <<2, <<>>>>, 9, MaybeHashOf(5), 0, 7, Some(<<1, 0>>), Some(<<1>>)>>,
       <<1, <<1, <<>>>>, 9, MaybeHashEmpty, 50, 0, None, None>>>>}

Waitlists ==
    {<<>>} \cup {<<<<3, <<d>>>>>> : d \in StateDispatches}

MemoryPagesValues == {<<>>, <<<<0, 5>>>>, <<<<0, 5>>, <<1, 6>>>>}

AllocationsValues == {<<>>, <<<<0, 1>>>>, <<<<0, 1>>, <<4, 4>>>>}

GasReservationMaps == {<<>>, <<<<1, <<30, 2, 7>>>>>>}

Payloads == {<<>>, <<0>>, <<4, 1>>}

PageBufs == {<<0, 0>>, <<4, 1>>}

(* CASDatabase                                                             *)

\* hash(data): the content address, one per content.
H256(data) == [h256 |-> data]

\* CASDatabase::write: stores data under its hash and returns the hash.
cas_write(db, data) ==
    [db |-> [h \in DOMAIN db \cup {H256(data)} |->
                IF h = H256(data) THEN data ELSE db[h]],
     hash |-> H256(data)]

\* CASDatabase::read
cas_read(db, hash) == IF hash \in DOMAIN db THEN Some(db[hash]) ELSE None

(* impl Storage for Database. A read returns None, Some(value) or panics   *)
(* in `expect`.                                                            *)

ReadNone == [r |-> "None"]

ReadSome(v) == [r |-> "Some", value |-> v]

ReadPanic == [r |-> "Panic"]

\* cas.read(&hash)? then T::decode(..).expect(..)
read_decoded(db, hash, T) ==
    LET data == cas_read(db, hash)
    IN IF data = None THEN ReadNone
       ELSE LET d == decode(T, data[1])
            IN IF d.ok THEN ReadSome(d.value) ELSE ReadPanic

read_state(db, hash) == read_decoded(db, hash, ProgramStateT)

write_state(db, state) == cas_write(db, encode(ProgramStateT, state))

read_queue(db, hash) == read_decoded(db, hash, MessageQueueT)

write_queue(db, queue) == cas_write(db, encode(MessageQueueT, queue))

read_waitlist(db, hash) == read_decoded(db, hash, WaitlistT)

write_waitlist(db, waitlist) == cas_write(db, encode(WaitlistT, waitlist))

read_pages(db, hash) == read_decoded(db, hash, MemoryPagesT)

write_pages(db, pages) == cas_write(db, encode(MemoryPagesT, pages))

read_allocations(db, hash) == read_decoded(db, hash, AllocationsT)

write_allocations(db, allocations) ==
    cas_write(db, encode(AllocationsT, allocations))

read_gas_reservation_map(db, hash) == read_decoded(db, hash, GasReservationMapT)

write_gas_reservation_map(db, gas_reservation_map) ==
    cas_write(db, encode(GasReservationMapT, gas_reservation_map))

\* Payload::try_from(data).expect(..): the bytes as they are, if not too long
read_payload(db, hash) ==
    LET data == cas_read(db, hash)
    IN IF data = None THEN ReadNone
       ELSE IF Len(data[1]) <= MaxPayloadSize THEN ReadSome(data[1])
       ELSE ReadPanic

\* Mutant: the payload is stored SCALE-encoded, with its length in front.
write_payload_encoded(db, payload) == cas_write(db, encode(Vec(U), payload))

\* cas.write(payload.inner()): the bytes as they are
write_payload(db, payload) == cas_write(db, payload)

\* PageBuf::decode: exactly one page of bytes from the front
read_page_data(db, hash) ==
    LET data == cas_read(db, hash)
    IN IF data = None THEN ReadNone
       ELSE IF Len(data[1]) >= PageSize
       THEN ReadSome(SubSeq(data[1], 1, PageSize))
       ELSE ReadPanic

\* cas.write(&data): the page bytes as they are
write_page_data(db, data) == cas_write(db, data)

(* The calls: any value may be written, any stored hash (or one that was   *)
(* never returned) may be read as any type.                                *)

UnknownHash == H256(<<9, 9, 9>>)

\* A write_* call that returned w.hash for value v.
Write(kind, v, w) ==
    /\ Len(written) < MaxWrites
    /\ cas' = w.db
    /\ written' = Append(written, [kind |-> kind, value |-> v, hash |-> w.hash])
    /\ UNCHANGED <<read_result, vars, sequencer_vars, call_vars, db_sync_vars>>

\* A read_* call for hash that returned result.
Read(kind, hash, result) ==
    /\ read_result' = [op |-> kind, hash |-> hash, result |-> result]
    /\ UNCHANGED <<cas, written, vars, sequencer_vars, call_vars, db_sync_vars>>

WriteState == \E v \in ProgramStates : Write("state", v, write_state(cas, v))

ReadState ==
    \E hash \in DOMAIN cas \cup {UnknownHash} :
        Read("state", hash, read_state(cas, hash))

WriteQueue == \E v \in MessageQueues : Write("queue", v, write_queue(cas, v))

ReadQueue ==
    \E hash \in DOMAIN cas \cup {UnknownHash} :
        Read("queue", hash, read_queue(cas, hash))

WriteWaitlist == \E v \in Waitlists : Write("waitlist", v, write_waitlist(cas, v))

ReadWaitlist ==
    \E hash \in DOMAIN cas \cup {UnknownHash} :
        Read("waitlist", hash, read_waitlist(cas, hash))

WritePages == \E v \in MemoryPagesValues : Write("pages", v, write_pages(cas, v))

ReadPages ==
    \E hash \in DOMAIN cas \cup {UnknownHash} :
        Read("pages", hash, read_pages(cas, hash))

WriteAllocations == \E v \in AllocationsValues : Write("allocations", v, write_allocations(cas, v))

ReadAllocations ==
    \E hash \in DOMAIN cas \cup {UnknownHash} :
        Read("allocations", hash, read_allocations(cas, hash))

WriteGasReservationMap == \E v \in GasReservationMaps : Write("gas_reservation_map", v, write_gas_reservation_map(cas, v))

ReadGasReservationMap ==
    \E hash \in DOMAIN cas \cup {UnknownHash} :
        Read("gas_reservation_map", hash, read_gas_reservation_map(cas, hash))

WritePayload == \E v \in Payloads : Write("payload", v, write_payload(cas, v))

ReadPayload ==
    \E hash \in DOMAIN cas \cup {UnknownHash} :
        Read("payload", hash, read_payload(cas, hash))

WritePageData == \E v \in PageBufs : Write("page_data", v, write_page_data(cas, v))

ReadPageData ==
    \E hash \in DOMAIN cas \cup {UnknownHash} :
        Read("page_data", hash, read_page_data(cas, hash))

StorageNext ==
    \/ WriteState
    \/ ReadState
    \/ WriteQueue
    \/ ReadQueue
    \/ WriteWaitlist
    \/ ReadWaitlist
    \/ WritePages
    \/ ReadPages
    \/ WriteAllocations
    \/ ReadAllocations
    \/ WriteGasReservationMap
    \/ ReadGasReservationMap
    \/ WritePayload
    \/ ReadPayload
    \/ WritePageData
    \/ ReadPageData

StorageSpecInit ==
    StorageInit /\ ProcessingIdle /\ SequencerInit /\ CallIdle /\ DbSyncInit

SpecStorage == StorageSpecInit /\ [][StorageNext]_<<vars, others_vars>>

\* read_* of the kind a value was written as.
read_as(kind, db, hash) ==
    IF kind = "state" THEN read_state(db, hash)
    ELSE IF kind = "queue" THEN read_queue(db, hash)
    ELSE IF kind = "waitlist" THEN read_waitlist(db, hash)
    ELSE IF kind = "pages" THEN read_pages(db, hash)
    ELSE IF kind = "allocations" THEN read_allocations(db, hash)
    ELSE IF kind = "gas_reservation_map" THEN read_gas_reservation_map(db, hash)
    ELSE IF kind = "payload" THEN read_payload(db, hash)
    ELSE read_page_data(db, hash)

----------------------------------------------------------------------------
(* C23: a value written through the storage interface is read back by the  *)
(* hash its write returned, also after later writes of other values.       *)

\* C23: in every state, each value of the write log is what the read of its
\* kind returns for its hash, and a read call that asked for the hash of a
\* written value of its kind returned that value.
C23_RoundTrip ==
    \A i \in 1..Len(written) :
        /\ read_as(written[i].kind, cas, written[i].hash)
             = ReadSome(written[i].value)
        /\ (/\ read_result.op = written[i].kind
            /\ read_result.hash = written[i].hash)
           => read_result.result = ReadSome(written[i].value)

C23_Witness ==
    /\ Len(written) = 2
    /\ written[1].kind = "queue"
    /\ Len(written[1].value) = 2
    /\ written[2].kind = "pages"
    /\ read_result.op = "queue"
    /\ read_result.hash = written[1].hash
    /\ read_result.result = ReadSome(written[1].value)

----------------------------------------------------------------------------
(***************************************************************************)
(* Sequencer of ethexe (ethexe/sequencer/src/lib.rs): commitments are      *)
(* collected from validators, the ones with enough origins become the      *)
(* candidate, the candidate collects signatures and is submitted.          *)
(***************************************************************************)

Validators == {"v1", "v2"}

\* The validators and one address that is not a validator.
Addresses == Validators \cup {"x1"}

\* What recovering a signature made for another digest yields: nobody.
NoAddress == "x0"

\* Sequencer::new: threshold: 1
threshold == 1

CodeCommitments == {"c1", "c2"}

BlockCommitments == {"b1"}

\* AsDigest::as_digest of one commitment
as_digest(commitment) == [digest_of |-> commitment]

\* AsDigest::as_digest of a collection of digests
digests_as_digest(digests) == [digest_of_all |-> digests]

\* AsDigest::as_digest of a batch of commitments
commitments_as_digest(commitments) ==
    digests_as_digest({as_digest(commitments[i]) : i \in 1..Len(commitments)})

\* A digest nothing of the model hashes to.
WrongDigest == digests_as_digest({as_digest("other")})

\* A signature of digest by signer.
sign(signer, digest) == [signer |-> signer, digest |-> digest]

\* Signature recovery: the signer, when the signature was made for digest.
recover(signature, digest) ==
    IF signature.digest = digest THEN signature.signer ELSE NoAddress

\* AggregatedCommitments::recover
aggregated_recover(aggregated) ==
    recover(aggregated.signature, commitments_as_digest(aggregated.commitments))

\* MultisignedCommitmentDigests::new
MultisignedCommitmentDigests_new(digests) ==
    [digest |-> digests_as_digest(digests), digests |-> digests,
     signatures |-> EmptyMap]

\* MultisignedCommitmentDigests::append_signature_with_check, with the
\* validator check receive_signature passes to it
append_signature_with_check(candidate, digest, signature, validators) ==
    IF candidate.digest # digest
    THEN [ok |-> FALSE, error |-> "Incorrect digest", candidate |-> candidate]
    ELSE LET origin == recover(signature, digest)
         IN IF origin \notin validators
            THEN [ok |-> FALSE,
                  error |-> "Unknown validator or invalid signature",
                  candidate |-> candidate]
            ELSE [ok |-> TRUE, error |-> "",
                  candidate |->
                    [candidate EXCEPT !.signatures =
                        [o \in DOMAIN @ \cup {origin} |->
                            IF o = origin THEN signature ELSE @[o]]]]

\* The loop of receive_commitments: origin joins the origins of every
\* commitment of the batch, a new digest gets a new entry.
RECURSIVE insert_origin(_, _, _)
insert_origin(storage, commitments, origin) ==
    IF commitments = <<>> THEN storage
    ELSE LET commitment == Head(commitments)
             digest == as_digest(commitment)
             entry == IF digest \in DOMAIN storage THEN storage[digest]
                      ELSE [commitment |-> commitment, origins |-> {}]
             stored == [d \in DOMAIN storage \cup {digest} |->
                          IF d = digest
                          THEN [entry EXCEPT !.origins = @ \cup {origin}]
                          ELSE storage[d]]
         IN insert_origin(stored, Tail(commitments), origin)

\* Mutant: commitments of an unknown signer are stored all the same.
receive_commitments_from_anyone(aggregated, validators, commitments_storage) ==
    LET origin == aggregated_recover(aggregated)
    IN [ok |-> origin \in validators,
        error |-> IF origin \in validators THEN ""
                  ELSE "Unknown validator or invalid signature",
        storage |-> insert_origin(commitments_storage, aggregated.commitments,
                                  origin)]

receive_commitments(aggregated, validators, commitments_storage) ==
    LET origin == aggregated_recover(aggregated)
    IN IF origin \notin validators
       THEN [ok |-> FALSE, error |-> "Unknown validator or invalid signature",
             storage |-> commitments_storage]
       ELSE [ok |-> TRUE, error |-> "",
             storage |-> insert_origin(commitments_storage,
                                       aggregated.commitments, origin)]

\* Mutant: a missing candidate is taken for a candidate without signatures.
receive_signature_without_candidate(digest, signature, validators, candidate) ==
    IF candidate = <<>>
    THEN [ok |-> TRUE, error |-> "", candidate |-> candidate]
    ELSE LET r == append_signature_with_check(candidate[1], digest, signature,
                                              validators)
         IN [ok |-> r.ok, error |-> r.error, candidate |-> Some(r.candidate)]

receive_signature(digest, signature, validators, candidate) ==
    IF candidate = <<>>
    THEN [ok |-> FALSE, error |-> "No candidate found", candidate |-> candidate]
    ELSE LET r == append_signature_with_check(candidate[1], digest, signature,
                                              validators)
         IN [ok |-> r.ok, error |-> r.error, candidate |-> Some(r.candidate)]

\* Mutant: a commitment needs more origins than the threshold.
set_candidate_commitments_above_threshold(commitments, candidate, thr) ==
    LET suitable_digests ==
            {d \in DOMAIN commitments :
                Cardinality(commitments[d].origins) > thr}
    IN IF suitable_digests = {} THEN candidate
       ELSE Some(MultisignedCommitmentDigests_new(suitable_digests))

set_candidate_commitments(commitments, candidate, thr) ==
    LET suitable_digests ==
            {d \in DOMAIN commitments :
                Cardinality(commitments[d].origins) >= thr}
    IN IF suitable_digests = {} THEN candidate
       ELSE Some(MultisignedCommitmentDigests_new(suitable_digests))

\* MultisignedCommitments::from_multisigned_digests, for digests in the map
from_multisigned_digests(candidate, commitments) ==
    [commitments |-> {commitments[d].commitment : d \in candidate.digests},
     signatures |-> candidate.signatures]

\* The candidate is consumed, its commitments leave the map; `panicked` is
\* the unreachable!() of a digest that is not in the map.
take_candidate(candidate, commitments) ==
    [ret |-> IF candidate.digests \subseteq DOMAIN commitments
             THEN Some(from_multisigned_digests(candidate, commitments))
             ELSE None,
     candidate |-> None,
     commitments |-> [d \in DOMAIN commitments \ candidate.digests |->
                         commitments[d]],
     panicked |-> ~(candidate.digests \subseteq DOMAIN commitments)]

\* Mutant: the candidate stays in place after its commitments were taken.
process_multisigned_candidate_keeping_it(candidate, commitments, thr) ==
    IF candidate = <<>> \/ thr > Cardinality(DOMAIN candidate[1].signatures)
    THEN [ret |-> None, candidate |-> candidate, commitments |-> commitments,
          panicked |-> FALSE]
    ELSE [take_candidate(candidate[1], commitments) EXCEPT
              !.candidate = candidate]

\* Mutant: as many signatures as the threshold are not enough.
process_multisigned_candidate_above_threshold(candidate, commitments, thr) ==
    IF candidate = <<>> \/ thr >= Cardinality(DOMAIN candidate[1].signatures)
    THEN [ret |-> None, candidate |-> candidate, commitments |-> commitments,
          panicked |-> FALSE]
    ELSE take_candidate(candidate[1], commitments)

process_multisigned_candidate(candidate, commitments, thr) ==
    IF candidate = <<>> \/ thr > Cardinality(DOMAIN candidate[1].signatures)
    THEN [ret |-> None, candidate |-> candidate, commitments |-> commitments,
          panicked |-> FALSE]
    ELSE take_candidate(candidate[1], commitments)

get_candidate_commitments(candidate, commitments) ==
    IF candidate = <<>> THEN [items |-> {}, panicked |-> FALSE]
    ELSE [items |-> {commitments[d].commitment :
                        d \in candidate[1].digests \cap DOMAIN commitments},
          panicked |-> ~(candidate[1].digests \subseteq DOMAIN commitments)]

(* The operations of the Sequencer and what arrives from outside.          *)

CodeBatches == {<<>>, <<"c1">>, <<"c1", "c2">>}

BlockBatches == {<<>>, <<"b1">>}

\* The batches as any address aggregates them, and one with a signature
\* made for something else.
Aggregated(batches) ==
    {[commitments |-> b, signature |-> sign(a, commitments_as_digest(b))] :
        b \in batches, a \in Addresses}
    \cup {[commitments |-> b, signature |-> sign("v1", WrongDigest)] :
            b \in batches}

\* The digests a signature may arrive for: the candidate's and a wrong one.
SignedDigests(candidate) ==
    {WrongDigest} \cup (IF candidate = <<>> THEN {} ELSE {candidate[1].digest})

SeqResult(op, ok, error) ==
    [op |-> op, ok |-> ok, error |-> error, panicked |-> FALSE]

ProcessObserverEvent ==
    /\ \E event \in {"Block", "Other"} :
        /\ status_sent' = IF event = "Block" THEN SequencerStatus_default
                          ELSE status_sent
        /\ seq_result' = [op |-> "process_observer_event", ok |-> TRUE,
                          error |-> "", panicked |-> FALSE, event |-> event]
    /\ codes_candidate' = None
    /\ blocks_candidate' = None
    /\ UNCHANGED <<code_commitments, block_commitments, vars, storage_vars,
                   call_vars, db_sync_vars>>

ProcessCollectedCommitments ==
    /\ IF codes_candidate # <<>> \/ blocks_candidate # <<>>
       THEN /\ seq_result' = SeqResult("process_collected_commitments", FALSE,
                        "Previous commitments candidate are not submitted")
            /\ UNCHANGED <<codes_candidate, blocks_candidate>>
       ELSE /\ codes_candidate' = set_candidate_commitments(
                                      code_commitments, codes_candidate, threshold)
            /\ blocks_candidate' = set_candidate_commitments(
                                      block_commitments, blocks_candidate, threshold)
            /\ seq_result' = SeqResult("process_collected_commitments", TRUE, "")
    /\ UNCHANGED <<code_commitments, block_commitments, status_sent, vars,
                   storage_vars, call_vars, db_sync_vars>>

SubmitMultisignedCommitments ==
    LET codes == process_multisigned_candidate(codes_candidate,
                                               code_commitments, threshold)
        blocks == process_multisigned_candidate(blocks_candidate,
                                                block_commitments, threshold)
        code_commitments_len ==
            IF codes.ret = <<>> THEN 0
            ELSE Cardinality(codes.ret[1].commitments)
        block_commitments_len ==
            IF blocks.ret = <<>> THEN 0
            ELSE Cardinality(blocks.ret[1].commitments)
    IN /\ codes_candidate' = codes.candidate
       /\ code_commitments' = codes.commitments
       /\ blocks_candidate' = blocks.candidate
       /\ block_commitments' = blocks.commitments
       /\ status_sent' =
            [SequencerStatus_default EXCEPT
                !.submitted_code_commitments = @ + code_commitments_len,
                !.submitted_block_commitments = @ + block_commitments_len]
       /\ seq_result' = [op |-> "submit_multisigned_commitments", ok |-> TRUE,
                         error |-> "",
                         panicked |-> codes.panicked \/ blocks.panicked,
                         codes |-> codes.ret, blocks |-> blocks.ret]
       /\ UNCHANGED <<vars, storage_vars, call_vars, db_sync_vars>>

ReceiveCodeCommitments ==
    /\ \E aggregated \in Aggregated(CodeBatches) :
        LET r == receive_commitments(aggregated, Validators, code_commitments)
        IN /\ code_commitments' = r.storage
           /\ seq_result' = [op |-> "receive_code_commitments", ok |-> r.ok,
                             error |-> r.error, panicked |-> FALSE,
                             aggregated |-> aggregated]
    /\ UNCHANGED <<block_commitments, codes_candidate, blocks_candidate,
                   status_sent, vars, storage_vars, call_vars, db_sync_vars>>

ReceiveBlockCommitments ==
    /\ \E aggregated \in Aggregated(BlockBatches) :
        LET r == receive_commitments(aggregated, Validators, block_commitments)
        IN /\ block_commitments' = r.storage
           /\ seq_result' = [op |-> "receive_block_commitments", ok |-> r.ok,
                             error |-> r.error, panicked |-> FALSE,
                             aggregated |-> aggregated]
    /\ UNCHANGED <<code_commitments, codes_candidate, blocks_candidate,
                   status_sent, vars, storage_vars, call_vars, db_sync_vars>>

ReceiveCodesSignature ==
    /\ \E digest \in SignedDigests(codes_candidate), signer \in Addresses :
        \E signed \in SignedDigests(codes_candidate) :
            LET r == receive_signature(digest, sign(signer, signed), Validators,
                                       codes_candidate)
            IN /\ codes_candidate' = r.candidate
               /\ seq_result' = SeqResult("receive_codes_signature", r.ok,
                                          r.error)
    /\ UNCHANGED <<code_commitments, block_commitments, blocks_candidate,
                   status_sent, vars, storage_vars, call_vars, db_sync_vars>>

ReceiveBlocksSignature ==
    /\ \E digest \in SignedDigests(blocks_candidate), signer \in Addresses :
        \E signed \in SignedDigests(blocks_candidate) :
            LET r == receive_signature(digest, sign(signer, signed), Validators,
                                       blocks_candidate)
            IN /\ blocks_candidate' = r.candidate
               /\ seq_result' = SeqResult("receive_blocks_signature", r.ok,
                                          r.error)
    /\ UNCHANGED <<code_commitments, block_commitments, codes_candidate,
                   status_sent, vars, storage_vars, call_vars, db_sync_vars>>

GetCandidateCodeCommitments ==
    /\ LET r == get_candidate_commitments(codes_candidate, code_commitments)
       IN seq_result' = [op |-> "get_candidate_code_commitments", ok |-> TRUE,
                         error |-> "", panicked |-> r.panicked,
                         items |-> r.items]
    /\ UNCHANGED <<code_commitments, block_commitments, codes_candidate,
                   blocks_candidate, status_sent, vars, storage_vars, call_vars,
                   db_sync_vars>>

GetCandidateBlockCommitments ==
    /\ LET r == get_candidate_commitments(blocks_candidate, block_commitments)
       IN seq_result' = [op |-> "get_candidate_block_commitments", ok |-> TRUE,
                         error |-> "", panicked |-> r.panicked,
                         items |-> r.items]
    /\ UNCHANGED <<code_commitments, block_commitments, codes_candidate,
                   blocks_candidate, status_sent, vars, storage_vars, call_vars,
                   db_sync_vars>>

SequencerNext ==
    \/ ProcessObserverEvent
    \/ ProcessCollectedCommitments
    \/ SubmitMultisignedCommitments
    \/ ReceiveCodeCommitments
    \/ ReceiveBlockCommitments
    \/ ReceiveCodesSignature
    \/ ReceiveBlocksSignature
    \/ GetCandidateCodeCommitments
    \/ GetCandidateBlockCommitments

SequencerSpecInit ==
    SequencerInit /\ ProcessingIdle /\ StorageInit /\ CallIdle /\ DbSyncInit

SpecSequencer == SequencerSpecInit /\ [][SequencerNext]_<<vars, others_vars>>

----------------------------------------------------------------------------
(* C24: the digests of a candidate are keys of the commitments map, so the *)
(* unreachable!() of get_candidate_commitments and                         *)
(* process_multisigned_candidate is never reached.                         *)

\* C24: in every state both candidates hold only digests of their map, and
\* no operation has reached the unreachable!().
C24_CandidatesInMap ==
    /\ codes_candidate # <<>> =>
          codes_candidate[1].digests \subseteq DOMAIN code_commitments
    /\ blocks_candidate # <<>> =>
          blocks_candidate[1].digests \subseteq DOMAIN block_commitments
    /\ ~seq_result.panicked

C24_Witness ==
    /\ seq_result.op = "submit_multisigned_commitments"
    /\ seq_result.blocks # <<>>
    /\ DOMAIN block_commitments = {}
    /\ codes_candidate # <<>>
    /\ Cardinality(codes_candidate[1].digests) = 2
    /\ C24_CandidatesInMap

----------------------------------------------------------------------------
(* C25: process_multisigned_candidate, as submit_multisigned_commitments   *)
(* calls it for the codes and for the blocks.                              *)

\* What C25 says of one call: before (candidate, commitments), returned
\* ret, after (candidate2, commitments2).
C25_Call(candidate, commitments, returned, candidate2, commitments2) ==
    IF candidate = <<>>
       \/ Cardinality(DOMAIN candidate[1].signatures) < threshold
    THEN /\ returned = <<>>
         /\ candidate2 = candidate
         /\ commitments2 = commitments
    ELSE /\ returned = <<[commitments |-> {commitments[d].commitment :
                                        d \in candidate[1].digests},
                     signatures |-> candidate[1].signatures]>>
         /\ candidate2 = <<>>
         /\ DOMAIN commitments2 = DOMAIN commitments \ candidate[1].digests
         /\ \A d \in DOMAIN commitments2 : commitments2[d] = commitments[d]

----------------------------------------------------------------------------
(* C27: receive_commitments, as receive_code_commitments and               *)
(* receive_block_commitments call it.                                      *)

\* The digests of the commitments of a batch.
C27_BatchDigests(commitments) ==
    {as_digest(commitments[i]) : i \in 1..Len(commitments)}

\* What C27 says of one call: the storage before and after it, and its
\* result.
C27_Call(aggregated, ok, storage, storage2) ==
    LET origin == aggregated_recover(aggregated)
        batch == C27_BatchDigests(aggregated.commitments)
    IN IF origin \notin Validators
       THEN ~ok /\ storage2 = storage
       ELSE /\ ok
            /\ DOMAIN storage2 = DOMAIN storage \cup batch
            /\ \A d \in batch :
                 /\ \E i \in 1..Len(aggregated.commitments) :
                      /\ as_digest(aggregated.commitments[i]) = d
                      /\ storage2[d].commitment = aggregated.commitments[i]
                 /\ storage2[d].origins =
                      (IF d \in DOMAIN storage THEN storage[d].origins ELSE {})
                      \cup {origin}
            /\ \A d \in DOMAIN storage \ batch : storage2[d] = storage[d]
            /\ receive_commitments(aggregated, Validators, storage2).storage
                  = storage2

\* C27: a batch whose recovered signer is not a validator is rejected and
\* the storage stays as it was; a validator's batch adds the signer to the
\* origins of each of its commitments, with a new entry for a new digest,
\* and receiving it again changes nothing more.
C27_ReceiveCommitments ==
    [][/\ seq_result'.op = "receive_code_commitments" =>
            C27_Call(seq_result'.aggregated, seq_result'.ok,
                     code_commitments, code_commitments')
       /\ seq_result'.op = "receive_block_commitments" =>
            C27_Call(seq_result'.aggregated, seq_result'.ok,
                     block_commitments, block_commitments')]_<<vars, others_vars>>

C27_Witness ==
    /\ seq_result.op = "receive_code_commitments"
    /\ seq_result.ok
    /\ seq_result.aggregated.commitments = <<"c1", "c2">>
    /\ seq_result.aggregated.signature.signer = "v2"
    /\ DOMAIN code_commitments = {as_digest("c1"), as_digest("c2")}
    /\ code_commitments[as_digest("c1")].origins = {"v1", "v2"}
    /\ code_commitments[as_digest("c2")].origins = {"v2"}

----------------------------------------------------------------------------
(* C28: the refusals of process_collected_commitments and of               *)
(* receive_signature, and the reset of process_observer_event.             *)

\* C28: process_collected_commitments with a candidate already set fails
\* with 'Previous commitments candidate are not submitted' and changes
\* nothing; a signature received with no candidate fails with 'No candidate
\* found'; process_observer_event leaves both candidates None.
C28_Refusals ==
    [][/\ (/\ seq_result'.op = "process_collected_commitments"
           /\ (codes_candidate # <<>> \/ blocks_candidate # <<>>)) =>
            /\ ~seq_result'.ok
            /\ seq_result'.error =
                 "Previous commitments candidate are not submitted"
            /\ UNCHANGED <<code_commitments, block_commitments,
                           codes_candidate, blocks_candidate, status_sent>>
       /\ (seq_result'.op = "receive_codes_signature"
           /\ codes_candidate = <<>>) =>
            /\ ~seq_result'.ok
            /\ seq_result'.error = "No candidate found"
            /\ UNCHANGED <<codes_candidate, blocks_candidate>>
       /\ (seq_result'.op = "receive_blocks_signature"
           /\ blocks_candidate = <<>>) =>
            /\ ~seq_result'.ok
            /\ seq_result'.error = "No candidate found"
            /\ UNCHANGED <<codes_candidate, blocks_candidate>>
       /\ seq_result'.op = "process_observer_event" =>
            /\ codes_candidate' = <<>>
            /\ blocks_candidate' = <<>>]_<<vars, others_vars>>

C28_Witness ==
    /\ seq_result.op = "process_collected_commitments"
    /\ ~seq_result.ok
    /\ seq_result.error = "Previous commitments candidate are not submitted"
    /\ codes_candidate = <<>>
    /\ blocks_candidate # <<>>
    /\ DOMAIN code_commitments # {}

----------------------------------------------------------------------------
(* Sequencer::set_candidate_commitments called directly, as                *)
(* test_set_candidate_commitments does: any map, any candidate, any        *)
(* threshold up to MaxThreshold.                                           *)

MaxThreshold == 2

\* The commitments maps: each code commitment absent, or present with any
\* set of origins (the test stores entries with no origins).
CommitmentsMaps ==
    UNION {[{as_digest(c) : c \in present} ->
              {[commitment |-> c, origins |-> o] :
                  c \in CodeCommitments, o \in SUBSET Validators}] :
           present \in SUBSET CodeCommitments}

\* Only the entries stored under the digest of their commitment.
CommitmentsMapsByDigest ==
    {m \in CommitmentsMaps :
        \A d \in DOMAIN m : as_digest(m[d].commitment) = d}

\* The candidates a call may find: none, or an earlier one with a signature.
EarlierCandidates ==
    {None,
     Some([MultisignedCommitmentDigests_new({as_digest("c2")}) EXCEPT
            !.signatures = [o \in {"v1"} |->
                sign("v1", digests_as_digest({as_digest("c2")}))]])}

CandidateInit ==
    /\ call_args \in [commitments : CommitmentsMapsByDigest,
                      candidate : EarlierCandidates,
                      threshold : 0..MaxThreshold]
    /\ call_ret = <<>>
    /\ ProcessingIdle /\ StorageInit /\ SequencerInit /\ DbSyncInit

SetCandidateCommitments ==
    /\ call_ret = <<>>
    /\ call_ret' = Some(set_candidate_commitments(
                        call_args.commitments, call_args.candidate,
                        call_args.threshold))
    /\ UNCHANGED <<call_args, vars, storage_vars, sequencer_vars, db_sync_vars>>

SpecCandidate ==
    CandidateInit /\ [][SetCandidateCommitments]_<<vars, others_vars>>

\* The digests of the commitments with at least the threshold of origins.
C26_Suitable ==
    {d \in DOMAIN call_args.commitments :
        Cardinality(call_args.commitments[d].origins) >= call_args.threshold}

\* C26: after set_candidate_commitments the candidate is a new one without
\* signatures that holds exactly the digests of the commitments with at
\* least threshold origins; when there is no such commitment the candidate
\* is the one from before the call.
C26_SetCandidate ==
    call_ret # <<>> =>
        IF C26_Suitable = {}
        THEN call_ret[1] = call_args.candidate
        ELSE /\ call_ret[1] # <<>>
             /\ call_ret[1][1].digests = C26_Suitable
             /\ DOMAIN call_ret[1][1].signatures = {}
             /\ call_ret[1][1].digest = digests_as_digest(C26_Suitable)

C26_Witness ==
    /\ call_ret # <<>>
    /\ call_args.threshold = 2
    /\ call_args.candidate # <<>>
    /\ DOMAIN call_args.commitments = {as_digest("c1"), as_digest("c2")}
    /\ call_args.commitments[as_digest("c2")].origins = {"v1"}
    /\ call_ret[1] # <<>>
    /\ call_ret[1][1].digests = {as_digest("c1")}
    /\ call_ret[1] # call_args.candidate

----------------------------------------------------------------------------
(***************************************************************************)
(* ethexe/network/src/db_sync.rs: requests for data of the database sent   *)
(* to peers, and responses to the requests of peers.                       *)
(***************************************************************************)

\* Vec<u8> values of the database: b"1", b"2", b"3"
DataValues == {<<1>>, <<2>>, <<3>>}

\* ethexe_db::hash: one H256 per content, in an order of its own.
ethexe_db_hash(data) == (data[1] * 5) % 7

Hashes == {ethexe_db_hash(data) : data \in DataValues}

\* ProgramId::from(1), from(2), from(3)
RequestedProgramIds == {1, 2, 3}

CodeId_default == "CodeId::default"

Request_BlockEndProgramStates(block_hash) ==
    [kind |-> "BlockEndProgramStates", hash |-> block_hash]

Request_DataForHashes(hashes) == [kind |-> "DataForHashes", hashes |-> hashes]

Request_ProgramCodeIds(ids) == [kind |-> "ProgramCodeIds", ids |-> ids]

Response_BlockEndProgramStates(block_hash, states) ==
    [kind |-> "BlockEndProgramStates", block_hash |-> block_hash,
     states |-> states]

Response_DataForHashes(hashes) == [kind |-> "DataForHashes", hashes |-> hashes]

Response_ProgramCodeIds(ids) == [kind |-> "ProgramCodeIds", ids |-> ids]

\* Result<(), RequestFailure>
ValidateOk == [ok |-> TRUE, error |-> ""]

Failure(error) == [ok |-> FALSE, error |-> error]

\* The key a BTreeMap iteration visits first.
first_key(keys) == CHOOSE k \in keys : \A j \in keys : k <= j

\* The loop over (hash, data) of a DataForHashes response; rest holds the
\* keys not visited yet.
RECURSIVE validate_data_for_hashes(_, _, _)
validate_data_for_hashes(requested_hashes, hashes, rest) ==
    IF rest = {} THEN ValidateOk
    ELSE LET h == first_key(rest)
         IN IF h \notin requested_hashes THEN Failure("ExcessiveData")
            ELSE IF h # ethexe_db_hash(hashes[h])
            THEN Failure("DataHashMismatch")
            ELSE validate_data_for_hashes(requested_hashes, hashes, rest \ {h})

\* The loop over the keys of a ProgramCodeIds response.
RECURSIVE validate_program_code_ids(_, _)
validate_program_code_ids(requested_ids, rest) ==
    IF rest = {} THEN ValidateOk
    ELSE LET pid == first_key(rest)
         IN IF pid \notin requested_ids THEN Failure("ExcessiveData")
            ELSE validate_program_code_ids(requested_ids, rest \ {pid})

\* Mutant: the data of a DataForHashes response is not hashed.
validate_response_unhashed(request, resp) ==
    IF request.kind = "BlockEndProgramStates"
       /\ resp.kind = "BlockEndProgramStates"
    THEN IF request.hash = resp.block_hash THEN ValidateOk
         ELSE Failure("HashInequality")
    ELSE IF request.kind = "DataForHashes" /\ resp.kind = "DataForHashes"
    THEN IF DOMAIN resp.hashes \subseteq request.hashes THEN ValidateOk
         ELSE Failure("ExcessiveData")
    ELSE IF request.kind = "ProgramCodeIds" /\ resp.kind = "ProgramCodeIds"
    THEN validate_program_code_ids(request.ids, DOMAIN resp.ids)
    ELSE Failure("TypeMismatch")

validate_response(request, resp) ==
    IF request.kind = "BlockEndProgramStates"
       /\ resp.kind = "BlockEndProgramStates"
    THEN IF request.hash = resp.block_hash THEN ValidateOk
         ELSE Failure("HashInequality")
    ELSE IF request.kind = "DataForHashes" /\ resp.kind = "DataForHashes"
    THEN validate_data_for_hashes(request.hashes, resp.hashes,
                                  DOMAIN resp.hashes)
    ELSE IF request.kind = "ProgramCodeIds" /\ resp.kind = "ProgramCodeIds"
    THEN validate_program_code_ids(request.ids, DOMAIN resp.ids)
    ELSE Failure("TypeMismatch")

\* Every request over the hashes and program ids of the model.
AllRequests ==
    {Request_BlockEndProgramStates(h) : h \in Hashes}
    \cup {Request_DataForHashes(hs) : hs \in SUBSET Hashes}
    \cup {Request_ProgramCodeIds(ids) : ids \in SUBSET RequestedProgramIds}

\* Every response over them: any hash with any data.
AllResponses ==
    {Response_BlockEndProgramStates(h, EmptyMap) : h \in Hashes}
    \cup {Response_DataForHashes(m) :
            m \in UNION {[hs -> DataValues] : hs \in SUBSET Hashes}}
    \cup {Response_ProgramCodeIds([pid \in ids |-> CodeId_default]) :
            ids \in SUBSET RequestedProgramIds}

ValidateInit ==
    /\ call_args \in [request : AllRequests, response : AllResponses]
    /\ call_ret = <<>>
    /\ ProcessingIdle /\ StorageInit /\ SequencerInit /\ DbSyncInit

ValidateResponse ==
    /\ call_ret = <<>>
    /\ call_ret' = Some(validate_response(call_args.request,
                                          call_args.response))
    /\ UNCHANGED <<call_args, vars, storage_vars, sequencer_vars, db_sync_vars>>

SpecValidate == ValidateInit /\ [][ValidateResponse]_<<vars, others_vars>>

\* The entries of a DataForHashes response that fail a check.
C29_Failing(request, resp) ==
    {h \in DOMAIN resp.hashes :
        h \notin request.hashes \/ h # ethexe_db_hash(resp.hashes[h])}

\* What C29 says validate_response returns.
C29_Expected(request, resp) ==
    IF request.kind # resp.kind THEN Failure("TypeMismatch")
    ELSE IF request.kind = "BlockEndProgramStates"
    THEN IF resp.block_hash = request.hash THEN ValidateOk
         ELSE Failure("HashInequality")
    ELSE IF request.kind = "DataForHashes"
    THEN IF C29_Failing(request, resp) = {} THEN ValidateOk
         ELSE IF first_key(C29_Failing(request, resp)) \notin request.hashes
         THEN Failure("ExcessiveData")
         ELSE Failure("DataHashMismatch")
    ELSE IF DOMAIN resp.ids \subseteq request.ids THEN ValidateOk
         ELSE Failure("ExcessiveData")

\* C29: validate_response fails with TypeMismatch for a response of another
\* kind; for the same kind it accepts exactly when the block hash is the
\* requested one (else HashInequality), when every returned hash was
\* requested and is the hash of its data (else ExcessiveData or
\* DataHashMismatch, as the first failing entry decides), when every
\* returned program id was requested (else ExcessiveData). Entries that
\* were requested and not returned do not matter.
C29_ValidateResponse ==
    call_ret # <<>> =>
        call_ret[1] = C29_Expected(call_args.request, call_args.response)

C29_Witness ==
    /\ call_ret # <<>>
    /\ call_args.request = Request_DataForHashes(Hashes)
    /\ call_args.response =
         Response_DataForHashes([h \in {ethexe_db_hash(<<2>>)} |-> <<2>>])
    /\ call_ret[1] = ValidateOk

----------------------------------------------------------------------------
(* The db_sync Behaviour: requests of the user go out to a connected peer, *)
(* requests of peers are answered from the database. The inner             *)
(* request-response behaviour hands over one event per poll.               *)

MaxRequests == 2

MaxInbound == 2

Peers == {"peer"}

ConnectionIds == {1}

\* The requests the user and the peers make.
SyncRequests ==
    {Request_DataForHashes({ethexe_db_hash(<<1>>)}),
     Request_ProgramCodeIds({})}

\* The responses peers give: right, of the wrong data, of the wrong kind.
SyncResponses ==
    {Response_DataForHashes([h \in {ethexe_db_hash(<<1>>)} |-> <<1>>]),
     Response_DataForHashes([h \in {ethexe_db_hash(<<1>>)} |-> <<2>>]),
     Response_ProgramCodeIds(EmptyMap)}

\* What InnerBehaviour::poll may hand over: nothing, a request of a peer
\* on a new response channel, a response or a failure for a request that
\* was sent, a failure of or a report on an inbound request, or something
\* for the swarm.
InnerEvents ==
    {[type |-> "Pending"], [type |-> "ResponseSent"], [type |-> "ToSwarm"]}
    \cup {[type |-> "Request", request |-> request] :
            request \in IF Cardinality(DOMAIN inner.channels) < MaxInbound
                        THEN SyncRequests ELSE {}}
    \cup {[type |-> "Response", request_id |-> id, response |-> response] :
            id \in inner.sent, response \in SyncResponses}
    \cup {[type |-> "OutboundFailure", request_id |-> id, error |-> error] :
            id \in inner.sent, error \in {"UnsupportedProtocols", "Timeout"}}
    \cup {[type |-> "InboundFailure", error |-> error] :
            error \in {"UnsupportedProtocols", "ResponseOmission"}}

Returned(returned, request_id, detail) ==
    [ret |-> returned, request_id |-> request_id, detail |-> detail]

Poll_Pending == Returned("Pending", 0, "")

\* Behaviour::request
BehaviourRequest ==
    /\ request_id_counter < MaxRequests
    /\ \E request \in SyncRequests :
        /\ request_id_counter' = request_id_counter + 1
        /\ user_requests' =
              Append(user_requests, [request_id |-> request_id_counter + 1,
                                     request |-> request])
        /\ polled' = Returned("request", request_id_counter + 1, request.kind)
    /\ UNCHANGED <<connections, ongoing_requests, ongoing_response, inner,
                   vars, storage_vars, sequencer_vars, call_vars>>

\* Behaviour::on_swarm_event
OnSwarmEvent ==
    /\ \E event \in {"ConnectionEstablished", "ConnectionClosed", "Other"},
          peer_id \in Peers, connection_id \in ConnectionIds :
        LET entry == IF peer_id \in DOMAIN connections
                     THEN connections[peer_id] ELSE {}
        IN /\ connections' =
                IF event = "Other" THEN connections
                ELSE [p \in DOMAIN connections \cup {peer_id} |->
                        IF p # peer_id THEN connections[p]
                        ELSE IF event = "ConnectionEstablished"
                        THEN entry \cup {connection_id}
                        ELSE entry \ {connection_id}]
           /\ polled' = Returned("on_swarm_event", 0, event)
    /\ UNCHANGED <<request_id_counter, user_requests, ongoing_requests,
                   ongoing_response, inner, vars, storage_vars,
                   sequencer_vars, call_vars>>

\* The response channels after `channel` was used by send_response.
send_response(channels, channel) ==
    [channels EXCEPT ![channel] = "responded"]

\* The response channels after the holder of `channel` was dropped
\* without a response.
drop_channel(channels, channel) ==
    [channels EXCEPT ![channel] = "dropped"]

\* Behaviour::poll, with handle_inner_event for the event of the inner
\* behaviour; ready tells whether the database reader has finished.
Poll ==
    /\ \E ready \in BOOLEAN, event \in InnerEvents :
        IF DOMAIN connections # {} /\ user_requests # <<>>
        THEN LET popped == user_requests[Len(user_requests)]
                 outbound_request_id == inner.next_outbound
             IN /\ user_requests' =
                      SubSeq(user_requests, 1, Len(user_requests) - 1)
                /\ inner' = [inner EXCEPT
                                !.sent = @ \cup {outbound_request_id},
                                !.next_outbound = @ + 1]
                /\ ongoing_requests' =
                      [id \in DOMAIN ongoing_requests \cup {outbound_request_id}
                          |-> IF id = outbound_request_id THEN popped
                              ELSE ongoing_requests[id]]
                /\ polled' = Returned("RequestInitiated", popped.request_id,
                                      popped.request.kind)
                /\ UNCHANGED ongoing_response
        ELSE LET responds == ongoing_response # <<>> /\ ready
                 \* after `if let Some(..) = self.ongoing_response.take()`
                 taken == IF responds THEN <<>> ELSE ongoing_response
                 channels == IF responds
                             THEN send_response(inner.channels,
                                                ongoing_response[1].channel)
                             ELSE inner.channels
             IN IF event.type = "Request"
                THEN LET channel == Cardinality(DOMAIN channels) + 1
                         kept == IF taken = <<>> THEN channels
                                 ELSE drop_channel(channels, taken[1].channel)
                     IN /\ ongoing_response' =
                              Some([channel |-> channel,
                                    request |-> event.request])
                        /\ inner' = [inner EXCEPT !.channels =
                              [c \in DOMAIN kept \cup {channel} |->
                                  IF c = channel THEN "open" ELSE kept[c]]]
                        /\ polled' = Poll_Pending
                        /\ UNCHANGED <<user_requests, ongoing_requests>>
                ELSE IF event.type = "Response"
                THEN LET found == ongoing_requests[event.request_id]
                         validated == validate_response(found.request,
                                                        event.response)
                     IN /\ ongoing_requests' =
                              [id \in DOMAIN ongoing_requests
                                         \ {event.request_id} |->
                                  ongoing_requests[id]]
                        /\ inner' = [inner EXCEPT
                              !.channels = channels,
                              !.sent = @ \ {event.request_id}]
                        /\ polled' =
                              IF validated.ok
                              THEN Returned("RequestSucceed", found.request_id,
                                            event.response.kind)
                              ELSE Returned("RequestFailed", found.request_id,
                                            validated.error)
                        /\ ongoing_response' = taken
                        /\ UNCHANGED user_requests
                ELSE /\ ongoing_response' = taken
                     /\ inner' = [inner EXCEPT
                           !.channels = channels,
                           !.sent = IF event.type = "OutboundFailure"
                                    THEN @ \ {event.request_id} ELSE @]
                     /\ polled' =
                           IF event.type \in {"OutboundFailure",
                                              "InboundFailure"}
                              /\ event.error = "UnsupportedProtocols"
                           THEN Returned("CloseConnection", 0, event.type)
                           ELSE IF event.type = "ToSwarm"
                           THEN Returned("ToSwarm", 0, "")
                           ELSE Poll_Pending
                     /\ UNCHANGED <<user_requests, ongoing_requests>>
    /\ UNCHANGED <<connections, request_id_counter, vars, storage_vars,
                   sequencer_vars, call_vars>>

DbSyncNext == BehaviourRequest \/ OnSwarmEvent \/ Poll

DbSyncSpecInit ==
    DbSyncInit /\ ProcessingIdle /\ StorageInit /\ SequencerInit /\ CallIdle

SpecDbSync == DbSyncSpecInit /\ [][DbSyncNext]_<<vars, others_vars>>

\* C30: no inbound request is discarded: the response channel of each
\* inbound request received so far was given a response, or is the one
\* the behaviour holds to respond to.
C30_NoRequestDiscarded ==
    \A c \in DOMAIN inner.channels :
        \/ inner.channels[c] = "responded"
        \/ ongoing_response # <<>> /\ ongoing_response[1].channel = c

====
